---- MODULE Spec2Model ----
(***************************************************************************)
(* Model of the resilient data-access layer of instagram_investigator:     *)
(*   - CacheManager      (src/modules/cache_manager.py)                    *)
(*   - CircuitBreaker    (src/modules/performance_optimizer.py)            *)
(*   - BatchProcessor    (src/modules/batch_processor.py)                  *)
(*   - TikTokAPI         (src/modules/tiktok_api.py)                       *)
(*   - LinkedInAPI       (src/modules/linkedin_api.py)                     *)
(* Each component has its own specifications (SpecCache, SpecStats,        *)
(* SpecKey, SpecBreaker, SpecBreakerConc, SpecBatch, SpecBatchRun,         *)
(* SpecBatchProgress, SpecBatchLive, SpecBatchLock, SpecRetry, SpecRate,   *)
(* SpecClient, SpecClientLive) over one set of variables; a component that *)
(* a specification does not exercise stays in its constructed state.       *)
(***************************************************************************)
EXTENDS Naturals, Integers, Sequences, FiniteSets, Bags, TLC

VARIABLES
    now,        \* time.time(), in seconds
    \* CacheManager
    files,      \* the cache directory tree: path -> [mtime, content]
    ret,        \* the last CacheManager call: [op, args, val]
    \* CircuitBreaker
    failure_threshold,   \* self.failure_threshold
    recovery_timeout,    \* self.recovery_timeout
    failure_count,       \* self.failure_count
    last_failure_time,   \* self.last_failure_time
    state,               \* self.state
    pc,         \* per calling thread: where it is in CircuitBreaker's wrapper
    out,        \* per calling thread: how its last call through the breaker ended
    admit,      \* per calling thread: how its current call was let through
    streak,     \* failing calls in a row since the breaker was last reset
    \* BatchProcessor
    queue,      \* self.queue: the usernames waiting, first in first out
    unfinished, \* self.queue.unfinished_tasks: put, and not yet task_done
    results,    \* the usernames that are keys of self.results
    errors,     \* the usernames that are keys of self.errors
    stop_event, \* self.stop_event.is_set()
    workers,    \* len(self.workers)
    threads,    \* the worker threads alive: a bag of [listed, pc, username]
    monitors,   \* the monitor threads alive: a bag of [pc, waited]
    userpc,     \* where the thread that calls start, stop and add_profile is
    calls,      \* [adds, starts]: the calls made so far
    callbacks,  \* completion callbacks since the queue last drained, made by
                \* monitor threads that had waited for it to drain
    \* PerformanceOptimizer.retry_with_backoff and exponential_backoff
    max_retries,    \* self.max_retries
    attempt,        \* the loop variable of retry_with_backoff
    last_exception, \* the local last_exception
    rpc,            \* where the call of retry_with_backoff is
    invocations,    \* calls of func made by the current retry_with_backoff
    sleeps,         \* calls of time.sleep made by the current retry_with_backoff
    outcome,        \* how the last retry_with_backoff ended
    backoff,        \* the last call of exponential_backoff: arguments, jitter, value
    \* rate_limit_decorator
    calls_per_minute, \* the decorator's argument
    last_called,      \* last_called[0], the cursor all callers share
    rl,               \* per thread: where it is in wrapper, and when its
                      \* time.sleep is over
    \* CacheManager._generate_cache_key and _get_cache_file_path
    lookup,           \* two requests and, once computed, the file each addresses
    \* the callers of CacheManager.get
    gets,             \* [hits, misses]: the gets so far that returned a value
                      \* and that returned None
    \* the progress_callback given to BatchProcessor.set_callbacks
    progress,         \* [fired, current, total]: the calls made of it so far,
                      \* and current and total as the last call received them
    \* BatchProcessor.lock
    lock,             \* TRUE while a thread is inside a with self.lock block
    \* TikTokAPI and LinkedInAPI
    client,           \* [api, refresh_token]: which client it is, and whether
                      \* it was given a refresh token
    request,          \* the _make_request call under way or last made:
                      \* [pc, method, params, use_cache, remote, value, n],
                      \* remote once it has gone to the remote API, n the
                      \* calls made so far
    fetched           \* <<params, payload>> of the remote calls that succeeded

cacheVars == <<files, ret>>
breakerVars == <<failure_threshold, recovery_timeout, failure_count,
                 last_failure_time, state, pc, out, admit, streak>>
batchVars == <<queue, unfinished, results, errors, stop_event, workers,
               threads, monitors, userpc, calls, callbacks>>
retryVars == <<max_retries, attempt, last_exception, rpc, invocations, sleeps,
               outcome, backoff>>
rateVars == <<calls_per_minute, last_called, rl>>
keyVars == <<lookup>>
statsVars == <<gets>>
progressVars == <<progress>>
lockVars == <<lock>>
clientVars == <<client, request, fetched>>
\* what a step of one component leaves alone
notClient == <<batchVars, retryVars, rateVars, keyVars, statsVars,
    progressVars, lockVars>>
notCounted == <<breakerVars, batchVars, retryVars, rateVars, keyVars,
    progressVars, lockVars, clientVars>>
notCache == <<notCounted, statsVars>>
notBreaker == <<cacheVars, batchVars, retryVars, rateVars, keyVars,
    statsVars, progressVars, lockVars, clientVars>>
notLocked == <<now, cacheVars, breakerVars, retryVars, rateVars, keyVars,
    statsVars, progressVars, clientVars>>
notReported == <<now, cacheVars, breakerVars, retryVars, rateVars, keyVars,
    statsVars, lockVars, clientVars>>
notBatch == <<notReported, progressVars>>
notRetry == <<now, cacheVars, breakerVars, batchVars, rateVars, keyVars,
    statsVars, progressVars, lockVars, clientVars>>
notRate == <<cacheVars, breakerVars, batchVars, retryVars, keyVars,
    statsVars, progressVars, lockVars, clientVars>>
notKey == <<now, cacheVars, breakerVars, batchVars, retryVars, rateVars,
    statsVars, progressVars, lockVars, clientVars>>

(***************************************************************************)
(* Bounds of the model.                                                    *)
(***************************************************************************)
\* seconds that pass in one Tick of the cache clock
TimeStep == 2000
\* number of Ticks the clock may take
MaxTicks == 1
\* number of cache files that may exist at once
MaxFiles == 2
\* number of gets counted as hits and misses
MaxGets == 2
\* seconds that pass in one tick of the circuit breaker's clock
ClockStep == 60
\* number of ticks the circuit breaker's clock may take
MaxClockTicks == 3
\* the largest failure_threshold a breaker is constructed with
MaxThreshold == 2
\* threads that call through one breaker at the same time
NumThreads == 2
\* number of add_profile calls that enqueue a username
MaxAdds == 3
\* number of start calls that start a batch
MaxStarts == 2
\* largest max_retries a PerformanceOptimizer is constructed with
MaxRetries == 3
\* largest attempt exponential_backoff is called with
MaxAttempt == 7
\* seconds the clock advances while calls go through the rate limit guard
MaxRateTicks == 4
\* number of _make_request calls the user of an API client makes
MaxRequests == 4

\* Python's None where a name is expected, where a TTL is expected, where a
\* params dict is expected and as the value a call returns
None == "None"
NoTtl == -1
NoTime == -1
NoParams == << <<"None", "None">> >>
NoneValue == [none |-> TRUE]

(***************************************************************************)
(* CacheManager                                                            *)
(***************************************************************************)
\* CacheManager.PLATFORM_CONFIGS
PLATFORM_CONFIGS ==
    [instagram |-> [default_ttl |-> 3600, profile_ttl |-> 7200,
                    posts_ttl |-> 1800, compression |-> TRUE],
     facebook  |-> [default_ttl |-> 5400, profile_ttl |-> 10800,
                    posts_ttl |-> 2700, compression |-> TRUE],
     linkedin  |-> [default_ttl |-> 7200, profile_ttl |-> 14400,
                    posts_ttl |-> 3600, compression |-> TRUE],
     tiktok    |-> [default_ttl |-> 1800, profile_ttl |-> 3600,
                    posts_ttl |-> 900, compression |-> TRUE]]

\* cache_duration, the constructor's default
default_cache_duration == 3600

\* the platform names the callers pass: two configured ones and one that
\* PLATFORM_CONFIGS does not know
Platforms == {"instagram", "tiktok", "myspace"}
Endpoints == {"user"}
\* the cache types get is called with, and those set is called with
CacheTypes == {"default", "posts"}
SetCacheTypes == {"default"}
\* the payloads callers store: a serializable object and one that pickle
\* cannot serialize (a dict holding a lambda)
Values == {[payload |-> "v1"], [payload |-> "lambda"]}
Serializable(data) == data.payload # "lambda"
\* what a write that failed part-way leaves in the file
Truncated == [truncated |-> TRUE]
\* what may go wrong under a get: nothing; another thread removes the file
\* after the existence check; the file cannot be opened
Faults == {"none", "vanished", "unreadable"}

\* a params dict is the sequence of its (key, value) items in insertion order
EmptyDict == << >>
ParamsSet == {EmptyDict, << <<"user", "a">> >>}
\* the keys a params dict may hold, in sorted order
SortedKeys == <<"count", "user">>
\* TTL overrides a caller of set may pass
TtlOverrides == {NoTtl, 1}

\* bool(params): None and the empty dict are falsy
TruthyParams(d) == d # NoParams /\ d # EmptyDict
\* bool(name): None and the empty string are falsy
Truthy(x) == x # None /\ x # ""

\* dict lookup in an item sequence
HasKey(d, k) == \E i \in 1..Len(d) : d[i][1] = k
ValueOf(d, k) == d[CHOOSE i \in 1..Len(d) : d[i][1] = k][2]

\* json.dumps(params, sort_keys=True): the items in key order
RECURSIVE DumpItems(_, _, _)
DumpItems(d, i, first) ==
    IF i > Len(SortedKeys) THEN ""
    ELSE LET k == SortedKeys[i]
         IN IF HasKey(d, k)
            THEN (IF first THEN "" ELSE ", ") \o "\"" \o k \o "\": \""
                 \o ValueOf(d, k) \o "\"" \o DumpItems(d, i + 1, FALSE)
            ELSE DumpItems(d, i + 1, first)
\* json.dumps(params) without sort_keys: the items in insertion order
RECURSIVE DumpInOrder(_, _)
DumpInOrder(d, i) ==
    IF i > Len(d) THEN ""
    ELSE (IF i = 1 THEN "" ELSE ", ") \o "\"" \o d[i][1] \o "\": \""
         \o d[i][2] \o "\"" \o DumpInOrder(d, i + 1)
json_dumps_unsorted(d) == "{" \o DumpInOrder(d, 1) \o "}"

json_dumps_sorted(d) == "{" \o DumpItems(d, 1, TRUE) \o "}"

\* hashlib.md5(...).hexdigest(): a digest is named by the string it digests,
\* so two strings have one digest only if they are equal
md5(s) == "md5(" \o s \o ")"

\* CacheManager._generate_cache_key
generate_cache_key(platform, endpoint, params) ==
    LET params_str == IF TruthyParams(params) THEN json_dumps_sorted(params) ELSE ""
        cache_string == platform \o "_" \o endpoint \o "_" \o params_str
    IN md5(cache_string)

\* self.PLATFORM_CONFIGS.get(platform, {}).get('compression', False)
Compression(platform) ==
    IF platform \in DOMAIN PLATFORM_CONFIGS
    THEN PLATFORM_CONFIGS[platform].compression ELSE FALSE

\* CacheManager._get_cache_file_path: <<directory, file name>>
get_cache_file_path(platform, cache_key, use_compression) ==
    LET extension == IF use_compression THEN ".gz" ELSE ".json"
    IN <<platform, cache_key \o extension>>

\* CacheManager._get_ttl_for_platform
get_ttl_for_platform(platform, cache_type) ==
    IF platform \in DOMAIN PLATFORM_CONFIGS
    THEN LET platform_config == PLATFORM_CONFIGS[platform]
             ttl_key == cache_type \o "_ttl"
         IN IF ttl_key \in DOMAIN platform_config
            THEN platform_config[ttl_key]
            ELSE platform_config.default_ttl
    ELSE default_cache_duration

\* the platform directories _create_cache_structure makes under cache_dir
PlatformDirs == DOMAIN PLATFORM_CONFIGS

\* a file system without / with one file
RemoveFile(fs, path) == [p \in (DOMAIN fs) \ {path} |-> fs[p]]
WriteFile(fs, path, file) ==
    [p \in (DOMAIN fs) \cup {path} |-> IF p = path THEN file ELSE fs[p]]

\* the last call: its name, the selection it was given (clear) and the value
\* it returned
Call(op, args, val) == [op |-> op, args |-> args, val |-> val]

\* what CacheManager.get hands back on a hit: the object read from the file
GetHitValue(file) == file.content

\* the file CacheManager.get and CacheManager.set address
CacheFile(platform, endpoint, params) ==
    get_cache_file_path(platform,
                        generate_cache_key(platform, endpoint, params),
                        Compression(platform))

\* how the try block of a method ends: with a return or with an exception
Return(val) == [raised |-> "", val |-> val]
Raise(exception) == [raised |-> exception, val |-> NoneValue]

\* the try block of CacheManager.get, on file system fs at time t
GetTry(fs, t, platform, endpoint, params, cache_type, fault) ==
    LET ttl == get_ttl_for_platform(platform, cache_type)
        cache_file == CacheFile(platform, endpoint, params)
    IN IF cache_file \notin DOMAIN fs THEN Return(NoneValue)
       ELSE IF fault = "vanished"
       THEN \* os.path.getmtime
            Raise("FileNotFoundError")
       ELSE IF t - fs[cache_file].mtime > ttl THEN Return(NoneValue)
       ELSE IF fault = "unreadable"
       THEN \* gzip.open
            Raise("PermissionError")
       ELSE IF fs[cache_file].content = Truncated
       THEN \* pickle.load
            Raise("EOFError")
       ELSE Return(GetHitValue(fs[cache_file]))

\* get with a handler that lets the exception through
GetExceptReraise(result) ==
    IF result.raised # "" THEN [exception |-> result.raised] ELSE result.val

\* the handler of CacheManager.get: except Exception, return None
GetExcept(result) ==
    IF result.raised # "" THEN NoneValue ELSE result.val

\* the value CacheManager.get returns from file system fs at time t when
\* nothing goes wrong under it
GetResult(fs, t, platform, endpoint, params, cache_type) ==
    GetExcept(GetTry(fs, t, platform, endpoint, params, cache_type, "none"))

\* the requests whose keys are compared: platforms, endpoint names (one with
\* the separator of cache_string in it) and params dicts, among them None,
\* the empty dict, and the same items in both orders
KeyPlatforms == {"instagram", "tiktok"}
KeyEndpoints == {"user", "user_posts", "posts"}
KeyParams == {NoParams, EmptyDict,
              << <<"user", "a">> >>, << <<"user", "b">> >>,
              << <<"count", "a">> >>,
              << <<"user", "a">>, <<"count", "b">> >>,
              << <<"count", "b">>, <<"user", "a">> >>,
              << <<"user", "b">>, <<"count", "b">> >>}
Request(platform, endpoint, params) ==
    [platform |-> platform, endpoint |-> endpoint, params |-> params]
Requests == {Request(p, e, q) : p \in KeyPlatforms, e \in KeyEndpoints,
                                q \in KeyParams}
\* no file computed yet
NoPath == <<"", "">>

\* two requests, no key computed yet
KeyInit ==
    \E a \in Requests, b \in Requests :
        lookup = [a |-> a, b |-> b, path_a |-> NoPath, path_b |-> NoPath,
                  hit |-> FALSE, done |-> FALSE]

\* the file an entry of request r is in, by _generate_cache_key and
\* _get_cache_file_path as get and set call them
RequestFile(r) == CacheFile(r.platform, r.endpoint, r.params)

\* the files of the two requests are computed, and whether a get of the
\* second request finds a file that a set of the first has written
KeyLookup ==
    LET a == lookup.a
        b == lookup.b
        cache_data == [timestamp |-> now,
                       ttl |-> get_ttl_for_platform(a.platform, "default"),
                       platform |-> a.platform, endpoint |-> a.endpoint,
                       cache_type |-> "default", data |-> [payload |-> "v1"]]
        written == WriteFile(<< >>, RequestFile(a),
                             [mtime |-> now, content |-> cache_data])
    IN /\ ~ lookup.done
       /\ lookup' = [lookup EXCEPT
                       !.path_a = RequestFile(a),
                       !.path_b = RequestFile(b),
                       !.hit = GetResult(written, now, b.platform, b.endpoint,
                                         b.params, "default") # NoneValue,
                       !.done = TRUE]
       /\ UNCHANGED notKey

\* CacheManager.get, what it returns and does to the files: an expired file
\* is removed on the way
GetStep(platform, endpoint, params, cache_type, fault) ==
    LET ttl == get_ttl_for_platform(platform, cache_type)
        cache_file == CacheFile(platform, endpoint, params)
        result == GetTry(files, now, platform, endpoint, params, cache_type,
                         fault)
    IN /\ ret' = Call("get", [caught |-> result.raised], GetExcept(result))
       /\ files' = IF /\ cache_file \in DOMAIN files
                      /\ \/ fault = "vanished"
                         \/ now - files[cache_file].mtime > ttl
                   THEN RemoveFile(files, cache_file) ELSE files

\* CacheManager.get
GetWith(platform, endpoint, params, cache_type, fault) ==
    /\ GetStep(platform, endpoint, params, cache_type, fault)
    /\ UNCHANGED <<now, notCache>>

\* CacheManager.get, with its caller keeping count of values and Nones
GetCounted(platform, endpoint, params, cache_type) ==
    /\ gets.hits + gets.misses < MaxGets
    /\ GetStep(platform, endpoint, params, cache_type, "none")
    /\ gets' = IF ret'.val # NoneValue
               THEN [gets EXCEPT !.hits = @ + 1]
               ELSE [gets EXCEPT !.misses = @ + 1]
    /\ UNCHANGED <<now, notCounted>>

\* CacheManager.get when nothing goes wrong under it
Get(platform, endpoint, params, cache_type) ==
    GetWith(platform, endpoint, params, cache_type, "none")

\* set with a handler that logs the exception and goes on to return True
SetExceptSwallow(raised) == TRUE

\* the handler of CacheManager.set: except Exception, return False
SetExcept(raised) == raised = ""

\* CacheManager.set, what it returns and does to the files
SetStep(platform, endpoint, params, data, cache_type, ttl_arg) ==
    LET ttl == IF ttl_arg = NoTtl
               THEN get_ttl_for_platform(platform, cache_type) ELSE ttl_arg
        cache_file == CacheFile(platform, endpoint, params)
        cache_data == [timestamp |-> now, ttl |-> ttl, platform |-> platform,
                       endpoint |-> endpoint, cache_type |-> cache_type,
                       data |-> data]
        set_args == [platform |-> platform, endpoint |-> endpoint,
                     params |-> params, data |-> data]
    IN IF platform \notin PlatformDirs
       THEN \* open() of a file in a directory that does not exist raises
            /\ ret' = Call("set", set_args, SetExcept("FileNotFoundError"))
            /\ UNCHANGED files
       ELSE IF ~ Serializable(data)
       THEN \* gzip.open(cache_file, 'wb') has made the file anew when
            \* pickle.dump raises
            /\ cache_file \in DOMAIN files \/ Cardinality(DOMAIN files) < MaxFiles
            /\ files' = WriteFile(files, cache_file,
                                  [mtime |-> now, content |-> Truncated])
            /\ ret' = Call("set", set_args, SetExcept("PicklingError"))
       ELSE /\ cache_file \in DOMAIN files \/ Cardinality(DOMAIN files) < MaxFiles
            /\ files' = WriteFile(files, cache_file,
                                  [mtime |-> now, content |-> cache_data])
            /\ ret' = Call("set", set_args, SetExcept(""))

\* CacheManager.set
Set(platform, endpoint, params, data, cache_type, ttl_arg) ==
    /\ SetStep(platform, endpoint, params, data, cache_type, ttl_arg)
    /\ UNCHANGED <<now, notCache>>

\* _clear_directory run on cache_dir instead of the platform's directory
ClearDirectoryRemovedAnywhere(fs, t, platform, expired_only) ==
    {p \in DOMAIN fs :
        expired_only =>
              t - fs[p].mtime > get_ttl_for_platform(platform, "default")}

\* CacheManager._clear_directory on a platform directory: the files it removes
ClearDirectoryRemoved(fs, t, platform, expired_only) ==
    {p \in DOMAIN fs :
        /\ p[1] = platform
        /\ expired_only =>
              t - fs[p].mtime > get_ttl_for_platform(platform, "default")}

\* the files CacheManager.clear removes, by its three levels
ClearRemoved(fs, t, platform, endpoint, expired_only) ==
    IF Truthy(platform) /\ Truthy(endpoint)
    THEN {CacheFile(platform, endpoint, EmptyDict)} \cap DOMAIN fs
    ELSE IF Truthy(platform)
    THEN IF platform \in PlatformDirs
         THEN ClearDirectoryRemoved(fs, t, platform, expired_only) ELSE {}
    ELSE UNION {ClearDirectoryRemoved(fs, t, p, expired_only) : p \in PlatformDirs}

\* CacheManager.clear
Clear(platform, endpoint, expired_only) ==
    LET removed == ClearRemoved(files, now, platform, endpoint, expired_only)
        args == [platform |-> platform, endpoint |-> endpoint,
                 expired_only |-> expired_only]
    IN /\ files' = [p \in (DOMAIN files) \ removed |-> files[p]]
       /\ ret' = Call("clear", args, Cardinality(removed))
       /\ UNCHANGED <<now, notCache>>

\* CacheManager._get_directory_stats of a platform directory, without the
\* sizes in bytes
get_directory_stats(fs, t, platform) ==
    LET listed == {p \in DOMAIN fs : p[1] = platform}
        ttl == get_ttl_for_platform(platform, "default")
        expired == {p \in listed : t - fs[p].mtime > ttl}
    IN [total_files |-> Cardinality(listed),
        expired_files |-> Cardinality(expired),
        valid_files |-> Cardinality(listed \ expired),
        compressed_files |-> Cardinality(listed)]

\* the sum of one field over the platform directories
RECURSIVE SumStats(_, _, _)
SumStats(per_platform, field, names) ==
    IF names = {} THEN 0
    ELSE LET n == CHOOSE x \in names : TRUE
         IN per_platform[n][field] + SumStats(per_platform, field, names \ {n})

\* the dict CacheManager.get_stats returns, without the sizes in bytes and
\* the compression ratio computed from them
get_stats(fs, t, platform) ==
    IF Truthy(platform)
    THEN IF platform \in PlatformDirs
         THEN LET platform_stats == get_directory_stats(fs, t, platform)
              IN [total_files |-> platform_stats.total_files,
                  expired_files |-> platform_stats.expired_files,
                  valid_files |-> platform_stats.valid_files,
                  compressed_files |-> platform_stats.compressed_files,
                  platforms |-> [n \in {platform} |-> platform_stats]]
         ELSE [total_files |-> 0, expired_files |-> 0, valid_files |-> 0,
               platforms |-> << >>]
    ELSE LET per_platform == [n \in PlatformDirs |->
                                 get_directory_stats(fs, t, n)]
         IN [total_files |-> SumStats(per_platform, "total_files", PlatformDirs),
             expired_files |-> SumStats(per_platform, "expired_files",
                                        PlatformDirs),
             valid_files |-> SumStats(per_platform, "valid_files",
                                      PlatformDirs),
             platforms |-> per_platform]

\* CacheManager.get_stats
GetStats(platform) ==
    /\ ret' = Call("get_stats", [platform |-> platform],
                   get_stats(files, now, platform))
    /\ UNCHANGED <<files, now, notCache>>

\* time passes
Tick ==
    /\ now < MaxTicks * TimeStep
    /\ now' = now + TimeStep
    /\ UNCHANGED <<cacheVars, notCache>>

(***************************************************************************)
(* CircuitBreaker                                                          *)
(***************************************************************************)
Threads == 1..NumThreads
\* the thread of a caller that uses the breaker from one thread only
MainThread == CHOOSE t \in Threads : \A u \in Threads : t <= u
\* streak: n failing calls in a row since the breaker was last reset, while
\* clean; Broken once a call since the reset was rejected, was a trial or
\* raised another exception
Streak(n) == [clean |-> TRUE, n |-> n]
Broken == [clean |-> FALSE, n |-> 0]

\* CircuitBreaker.__init__
BreakerInit ==
    /\ failure_threshold \in 1..MaxThreshold
    /\ recovery_timeout \in {ClockStep, 2 * ClockStep}
    /\ failure_count = 0
    /\ last_failure_time = NoTime
    /\ state = "CLOSED"
    /\ pc = [t \in Threads |-> "idle"]
    /\ out = [t \in Threads |-> "none"]
    /\ admit = [t \in Threads |-> "none"]
    /\ streak = Streak(0)

\* _should_attempt_reset with > for >=
should_attempt_reset_strict == (now - last_failure_time) > recovery_timeout

\* CircuitBreaker._should_attempt_reset
should_attempt_reset == (now - last_failure_time) >= recovery_timeout

\* the test of _on_failure with > for >=
ShouldOpenStrict(count, threshold) == count > threshold
\* the test of _on_failure made on the count before it was incremented
ShouldOpenEarly(count, threshold) == count + 1 >= threshold

\* the test of CircuitBreaker._on_failure: failure_count >= failure_threshold
ShouldOpen(count, threshold) == count >= threshold

\* the rejection raised inside the try: with expected_exception = Exception
\* the handler counts it as a failure of the wrapped function
RejectAsFailure(t) ==
    /\ out' = [out EXCEPT ![t] = "rejected"]
    /\ admit' = [admit EXCEPT ![t] = "none"]
    /\ failure_count' = failure_count + 1
    /\ last_failure_time' = now
    /\ UNCHANGED <<state, pc>>

\* wrapper, the call an OPEN breaker turns away:
\* raise Exception("Circuit breaker está OPEN"), outside the try
Reject(t) ==
    /\ out' = [out EXCEPT ![t] = "rejected"]
    /\ admit' = [admit EXCEPT ![t] = "none"]
    /\ UNCHANGED <<state, pc, failure_count, last_failure_time>>

\* wrapper, up to the try: an OPEN breaker rejects the call or becomes
\* HALF_OPEN, any other state lets the call through
Enter(t) ==
    /\ pc[t] = "idle"
    /\ IF state = "OPEN"
       THEN IF should_attempt_reset
            THEN /\ state' = "HALF_OPEN"
                 /\ pc' = [pc EXCEPT ![t] = "func"]
                 /\ admit' = [admit EXCEPT ![t] = "trial"]
                 /\ out' = [out EXCEPT ![t] = "none"]
                 /\ UNCHANGED <<failure_count, last_failure_time>>
            ELSE Reject(t)
       ELSE /\ pc' = [pc EXCEPT ![t] = "func"]
            /\ admit' = [admit EXCEPT ![t] = "pass"]
            /\ out' = [out EXCEPT ![t] = "none"]
            /\ UNCHANGED <<state, failure_count, last_failure_time>>
    /\ streak' = IF state = "OPEN" THEN Broken ELSE streak
    /\ UNCHANGED <<failure_threshold, recovery_timeout, now, notBreaker>>

\* func(*args, **kwargs) returns
FuncReturns(t) ==
    /\ pc[t] = "func"
    /\ pc' = [pc EXCEPT ![t] = "on_success"]
    /\ UNCHANGED <<failure_threshold, recovery_timeout, failure_count,
                   last_failure_time, state, out, admit, streak, now, notBreaker>>

\* func(*args, **kwargs) raises expected_exception
FuncRaisesExpected(t) ==
    /\ pc[t] = "func"
    /\ pc' = [pc EXCEPT ![t] = "on_failure"]
    /\ UNCHANGED <<failure_threshold, recovery_timeout, failure_count,
                   last_failure_time, state, out, admit, streak, now, notBreaker>>

\* func(*args, **kwargs) raises an exception that is no expected_exception:
\* it leaves the wrapper past both handlers
FuncRaisesOther(t) ==
    /\ pc[t] = "func"
    /\ pc' = [pc EXCEPT ![t] = "idle"]
    /\ out' = [out EXCEPT ![t] = "other"]
    /\ streak' = Broken
    /\ UNCHANGED <<failure_threshold, recovery_timeout, failure_count,
                   last_failure_time, state, admit, now, notBreaker>>

\* _on_success without its first statement: failure_count stays
OnSuccessCountKept(t) ==
    /\ pc[t] = "on_success"
    /\ pc' = [pc EXCEPT ![t] = "on_success_close"]
    /\ UNCHANGED <<failure_threshold, recovery_timeout, failure_count,
                   last_failure_time, state, out, admit, streak, now,
                   notBreaker>>

\* CircuitBreaker._on_success, first statement: self.failure_count = 0
OnSuccessReset(t) ==
    /\ pc[t] = "on_success"
    /\ failure_count' = 0
    /\ pc' = [pc EXCEPT ![t] = "on_success_close"]
    /\ UNCHANGED <<failure_threshold, recovery_timeout, last_failure_time,
                   state, out, admit, streak, now, notBreaker>>

\* CircuitBreaker._on_success, second statement: self.state = 'CLOSED'
OnSuccessClose(t) ==
    /\ pc[t] = "on_success_close"
    /\ state' = "CLOSED"
    /\ pc' = [pc EXCEPT ![t] = "idle"]
    /\ out' = [out EXCEPT ![t] = "ok"]
    /\ streak' = Streak(0)
    /\ UNCHANGED <<failure_threshold, recovery_timeout, failure_count,
                   last_failure_time, admit, now, notBreaker>>

\* CircuitBreaker._on_failure, first statement: self.failure_count += 1
OnFailureCount(t) ==
    /\ pc[t] = "on_failure"
    /\ failure_count' = failure_count + 1
    /\ pc' = [pc EXCEPT ![t] = "on_failure_time"]
    /\ UNCHANGED <<failure_threshold, recovery_timeout, last_failure_time,
                   state, out, admit, streak, now, notBreaker>>

\* _on_failure without its second statement: last_failure_time stays
OnFailureTimeKept(t) ==
    /\ pc[t] = "on_failure_time"
    /\ pc' = [pc EXCEPT ![t] = "on_failure_open"]
    /\ UNCHANGED <<failure_threshold, recovery_timeout, failure_count,
                   last_failure_time, state, out, admit, streak, now,
                   notBreaker>>

\* CircuitBreaker._on_failure, second statement:
\* self.last_failure_time = time.time()
OnFailureTime(t) ==
    /\ pc[t] = "on_failure_time"
    /\ last_failure_time' = now
    /\ pc' = [pc EXCEPT ![t] = "on_failure_open"]
    /\ UNCHANGED <<failure_threshold, recovery_timeout, failure_count,
                   state, out, admit, streak, now, notBreaker>>

\* CircuitBreaker._on_failure, the test and self.state = 'OPEN'; the wrapper
\* then raises the exception again
OnFailureOpen(t) ==
    /\ pc[t] = "on_failure_open"
    /\ state' = IF ShouldOpen(failure_count, failure_threshold)
                THEN "OPEN" ELSE state
    /\ pc' = [pc EXCEPT ![t] = "idle"]
    /\ out' = [out EXCEPT ![t] = "failed"]
    /\ streak' = IF streak = Broken THEN Broken ELSE Streak(streak.n + 1)
    /\ UNCHANGED <<failure_threshold, recovery_timeout, failure_count,
                   last_failure_time, admit, now, notBreaker>>

\* one step of thread t in a call through the breaker
BreakerStep(t) ==
    \/ Enter(t)
    \/ FuncReturns(t)
    \/ FuncRaisesExpected(t)
    \/ FuncRaisesOther(t)
    \/ OnSuccessReset(t)
    \/ OnSuccessClose(t)
    \/ OnFailureCount(t)
    \/ OnFailureTime(t)
    \/ OnFailureOpen(t)

\* time passes for the breaker
ClockTick ==
    /\ now < MaxClockTicks * ClockStep
    /\ now' = now + ClockStep
    /\ UNCHANGED <<breakerVars, notBreaker>>

(***************************************************************************)
(* BatchProcessor                                                          *)
(***************************************************************************)
\* max_concurrent, the constructor's default
max_concurrent == 2

\* the usernames callers pass to add_profile
UsernameInputs == {"alice", " bob ", " "}
\* str.strip
Strip(u) == CASE u = " bob " -> "bob" [] u = " " -> "" [] OTHER -> u

\* a bag with one element taken out, put in, exchanged
Without(bag, x) == bag (-) SetToBag({x})
With(bag, x) == bag (+) SetToBag({x})
Exchange(bag, x, y) == With(Without(bag, x), y)
\* n copies of x
RECURSIVE Copies(_, _)
Copies(x, n) == IF n = 0 THEN EmptyBag ELSE With(Copies(x, n - 1), x)

\* a worker thread: listed while self.workers holds it
Worker(listed, p, username) == [listed |-> listed, pc |-> p, username |-> username]
WorkerPcs == {"loop", "get", "invoke", "progress", "task_done", "sleep"}
Usernames == {Strip(u) : u \in UsernameInputs} \ {""}
WorkerThreads == [listed : BOOLEAN, pc : WorkerPcs, username : Usernames \cup {None}]
\* a monitor thread: waited when the queue had unfinished tasks as it began
Monitor(p, waited) == [pc |-> p, waited |-> waited]

MonitorPcs == {"join", "callback", "stop", "stop_join"}
MonitorThreads == [pc : MonitorPcs, waited : BOOLEAN]

\* BatchProcessor.__init__
BatchInit ==
    /\ queue = << >>
    /\ unfinished = 0
    /\ results = {}
    /\ errors = {}
    /\ stop_event = FALSE
    /\ workers = 0
    /\ threads = EmptyBag
    /\ monitors = EmptyBag
    /\ userpc = "idle"
    /\ calls = [adds |-> 0, starts |-> 0]
    /\ callbacks = 0

\* investigate_profile calls in flight
InFlight == BagCardinality([w \in {x \in BagToSet(threads) : x.pc = "invoke"}
                              |-> threads[w]])

\* BatchProcessor.is_running
is_running == workers > 0 /\ \E w \in BagToSet(threads) : w.listed

\* worker threads inside time.sleep(self.delay)
Sleeping == BagCardinality([w \in {x \in BagToSet(threads) : x.pc = "sleep"}
                              |-> threads[w]])

\* worker threads that hold a dequeued item not yet marked done
Holding == BagCardinality([w \in {x \in BagToSet(threads) :
                                     x.pc \in {"invoke", "progress", "task_done"}}
                             |-> threads[w]])

\* worker threads inside investigate_profile(username)
Looking(bag, username) ==
    BagCardinality([w \in {x \in BagToSet(bag) :
                             x.pc = "invoke" /\ x.username = username}
                      |-> bag[w]])

\* BatchProcessor.add_profile
AddProfile(username) ==
    /\ userpc = "idle"
    /\ IF username # "" /\ Strip(username) # ""
       THEN /\ calls.adds < MaxAdds
            /\ queue' = Append(queue, Strip(username))
            /\ unfinished' = unfinished + 1
            /\ calls' = [calls EXCEPT !.adds = @ + 1]
       ELSE UNCHANGED <<queue, unfinished, calls>>
    /\ UNCHANGED <<results, errors, stop_event, workers, threads, monitors,
                   userpc, callbacks, notBatch>>

\* BatchProcessor.start
Start ==
    /\ userpc = "idle"
    /\ IF workers # 0
       THEN \* return False
            UNCHANGED <<results, errors, stop_event, workers, threads,
                        monitors, calls>>
       ELSE /\ calls.starts < MaxStarts
            /\ results' = {}
            /\ errors' = {}
            /\ stop_event' = FALSE
            /\ workers' = max_concurrent
            /\ threads' = threads (+) Copies(Worker(TRUE, "loop", None),
                                             max_concurrent)
            /\ monitors' = With(monitors, Monitor("join", unfinished > 0))
            /\ calls' = [calls EXCEPT !.starts = @ + 1]
    /\ UNCHANGED <<queue, unfinished, userpc, callbacks, notBatch>>

\* the workers worker.join(1) does not outlast: those in a lookup or in the
\* sleep between requests
Outlasts(w) == w.pc \in {"invoke", "sleep"}

\* BatchProcessor.stop, after the loop of joins: self.workers = []
StopEnd ==
    /\ \A w \in BagToSet(threads) : w.listed => Outlasts(w)
    /\ workers' = 0
    /\ threads' = LET alive == BagToSet(threads)
                      unlisted == {Worker(FALSE, w.pc, w.username) : w \in alive}
                  IN [u \in unlisted |->
                        (IF u \in alive THEN threads[u] ELSE 0)
                        + (IF Worker(TRUE, u.pc, u.username) \in alive
                           THEN threads[Worker(TRUE, u.pc, u.username)] ELSE 0)]

\* BatchProcessor.stop called by the user, up to the joins
UserStopBegin ==
    /\ userpc = "idle"
    /\ IF workers = 0
       THEN UNCHANGED <<stop_event, userpc>>
       ELSE stop_event' = TRUE /\ userpc' = "stop_join"
    /\ UNCHANGED <<queue, unfinished, results, errors, workers, threads,
                   monitors, calls, callbacks, notBatch>>

\* BatchProcessor.stop called by the user, from the joins on
UserStopEnd ==
    /\ userpc = "stop_join"
    /\ StopEnd
    /\ userpc' = "idle"
    /\ UNCHANGED <<queue, unfinished, results, errors, stop_event, monitors,
                   calls, callbacks, notBatch>>

\* _worker: while not self.stop_event.is_set()
WorkerLoop(w) ==
    /\ BagIn(w, threads)
    /\ w.pc = "loop"
    /\ threads' = IF stop_event THEN Without(threads, w)
                  ELSE Exchange(threads, w, Worker(w.listed, "get", None))
    /\ UNCHANGED <<queue, unfinished, results, errors, stop_event, workers,
                   monitors, userpc, calls, callbacks, notBatch>>

\* _worker with a get that hands the head of the queue over and leaves it in
\* the queue
WorkerGetKept(w) ==
    /\ BagIn(w, threads)
    /\ w.pc = "get"
    /\ IF queue # << >>
       THEN threads' = Exchange(threads, w,
                                Worker(w.listed, "invoke", Head(queue)))
       ELSE threads' = Exchange(threads, w, Worker(w.listed, "loop", None))
    /\ UNCHANGED <<queue, unfinished, results, errors, stop_event, workers,
                   monitors, userpc, calls, callbacks, notBatch>>

\* _worker: self.queue.get(timeout=1), a username or the timeout
WorkerGet(w) ==
    /\ BagIn(w, threads)
    /\ w.pc = "get"
    /\ IF queue # << >>
       THEN /\ queue' = Tail(queue)
            /\ threads' = Exchange(threads, w,
                                   Worker(w.listed, "invoke", Head(queue)))
       ELSE /\ threads' = Exchange(threads, w, Worker(w.listed, "loop", None))
            /\ UNCHANGED queue
    /\ UNCHANGED <<unfinished, results, errors, stop_event, workers,
                   monitors, userpc, calls, callbacks, notBatch>>

\* _worker with a lookup that gives up when the stop flag is set while it
\* runs: the thread ends and the username is recorded nowhere
WorkerSuccessDropped(w) ==
    /\ BagIn(w, threads)
    /\ w.pc = "invoke"
    /\ IF stop_event
       THEN threads' = Without(threads, w) /\ UNCHANGED results
       ELSE /\ results' = results \cup {w.username}
            /\ threads' = Exchange(threads, w, Worker(w.listed, "progress", None))
    /\ UNCHANGED <<queue, unfinished, errors, stop_event, workers,
                   monitors, userpc, calls, callbacks, notBatch>>

\* _worker: investigate_profile returns, the result is stored
WorkerSuccess(w) ==
    /\ BagIn(w, threads)
    /\ w.pc = "invoke"
    /\ results' = results \cup {w.username}
    /\ threads' = Exchange(threads, w, Worker(w.listed, "progress", None))
    /\ UNCHANGED <<queue, unfinished, errors, stop_event, workers,
                   monitors, userpc, calls, callbacks, notBatch>>

\* _worker without the handler around investigate_profile: the exception
\* reaches the outer handler, nothing is stored and the item is never marked
\* done
WorkerFailureUnrecorded(w) ==
    /\ BagIn(w, threads)
    /\ w.pc = "invoke"
    /\ threads' = Exchange(threads, w, Worker(w.listed, "loop", None))
    /\ UNCHANGED <<queue, unfinished, results, errors, stop_event, workers,
                   monitors, userpc, calls, callbacks, notBatch>>

\* _worker: investigate_profile raises, the message is stored
WorkerFailure(w) ==
    /\ BagIn(w, threads)
    /\ w.pc = "invoke"
    /\ errors' = errors \cup {w.username}
    /\ threads' = Exchange(threads, w, Worker(w.listed, "progress", None))
    /\ UNCHANGED <<queue, unfinished, results, stop_event, workers,
                   monitors, userpc, calls, callbacks, notBatch>>

\* _worker: the progress callback, if any, returns
WorkerProgress(w) ==
    /\ BagIn(w, threads)
    /\ w.pc = "progress"
    /\ threads' = Exchange(threads, w, Worker(w.listed, "task_done", None))
    /\ UNCHANGED <<queue, unfinished, results, errors, stop_event, workers,
                   monitors, userpc, calls, callbacks, notBatch>>

\* _worker: the progress callback raises; the outer handler logs it and the
\* loop goes on, past task_done and the sleep
WorkerProgressRaises(w) ==
    /\ BagIn(w, threads)
    /\ w.pc = "progress"
    /\ threads' = Exchange(threads, w, Worker(w.listed, "loop", None))
    /\ UNCHANGED <<queue, unfinished, results, errors, stop_event, workers,
                   monitors, userpc, calls, callbacks, notBatch>>

\* _worker with a progress_callback set: current and total are computed
\* under the lock and the callback is called with them, and returns
WorkerReport(w) ==
    /\ BagIn(w, threads)
    /\ w.pc = "progress"
    /\ LET current == Cardinality(results) + Cardinality(errors)
           total == current + Len(queue)
       IN progress' = [fired |-> progress.fired + 1, current |-> current,
                       total |-> total]
    /\ threads' = Exchange(threads, w, Worker(w.listed, "task_done", None))
    /\ UNCHANGED <<queue, unfinished, results, errors, stop_event, workers,
                   monitors, userpc, calls, callbacks, notReported>>

\* _worker with a progress_callback set that raises: the outer handler logs
\* it and the loop goes on, past task_done and the sleep
WorkerReportRaises(w) ==
    /\ BagIn(w, threads)
    /\ w.pc = "progress"
    /\ LET current == Cardinality(results) + Cardinality(errors)
           total == current + Len(queue)
       IN progress' = [fired |-> progress.fired + 1, current |-> current,
                       total |-> total]
    /\ threads' = Exchange(threads, w, Worker(w.listed, "loop", None))
    /\ UNCHANGED <<queue, unfinished, results, errors, stop_event, workers,
                   monitors, userpc, calls, callbacks, notReported>>

\* _worker: self.queue.task_done()
WorkerTaskDone(w) ==
    /\ BagIn(w, threads)
    /\ w.pc = "task_done"
    /\ unfinished' = unfinished - 1
    /\ callbacks' = IF unfinished = 1 THEN 0 ELSE callbacks
    /\ threads' = Exchange(threads, w, Worker(w.listed, "sleep", None))
    /\ UNCHANGED <<queue, results, errors, stop_event, workers,
                   monitors, userpc, calls, notBatch>>

\* _worker: time.sleep(self.delay) ends
WorkerSleep(w) ==
    /\ BagIn(w, threads)
    /\ w.pc = "sleep"
    /\ threads' = Exchange(threads, w, Worker(w.listed, "loop", None))
    /\ UNCHANGED <<queue, unfinished, results, errors, stop_event, workers,
                   monitors, userpc, calls, callbacks, notBatch>>

\* _monitor: self.queue.join() returns
MonitorJoin(m) ==
    /\ BagIn(m, monitors)
    /\ m.pc = "join"
    /\ unfinished = 0
    /\ monitors' = Exchange(monitors, m, Monitor("callback", m.waited))
    /\ UNCHANGED <<queue, unfinished, results, errors, stop_event, workers,
                   threads, userpc, calls, callbacks, notBatch>>

\* _monitor: self.completion_callback(self.results, self.errors)
MonitorCallback(m) ==
    /\ BagIn(m, monitors)
    /\ m.pc = "callback"
    /\ callbacks' = IF m.waited THEN callbacks + 1 ELSE callbacks
    /\ monitors' = Exchange(monitors, m, Monitor("stop", m.waited))
    /\ UNCHANGED <<queue, unfinished, results, errors, stop_event, workers,
                   threads, userpc, calls, notBatch>>

\* _monitor: self.stop(), up to the joins
MonitorStopBegin(m) ==
    /\ BagIn(m, monitors)
    /\ m.pc = "stop"
    /\ IF workers = 0
       THEN monitors' = Without(monitors, m) /\ UNCHANGED stop_event
       ELSE /\ stop_event' = TRUE
            /\ monitors' = Exchange(monitors, m, Monitor("stop_join", m.waited))
    /\ UNCHANGED <<queue, unfinished, results, errors, workers,
                   threads, userpc, calls, callbacks, notBatch>>

\* _monitor: self.stop(), from the joins on; the thread ends
MonitorStopEnd(m) ==
    /\ BagIn(m, monitors)
    /\ m.pc = "stop_join"
    /\ StopEnd
    /\ monitors' = Without(monitors, m)
    /\ UNCHANGED <<queue, unfinished, results, errors, stop_event, userpc,
                   calls, callbacks, notBatch>>

\* the steps of _worker around self.lock: a worker is at store_result,
\* store_error or count while it is inside a with self.lock block, and at
\* callback while it runs the progress callback
LockPcs == {"store_result", "store_error", "count", "callback"}
LockWorkerThreads == [listed : BOOLEAN, pc : WorkerPcs \cup LockPcs,
                      username : Usernames \cup {None}]
\* worker threads inside a with self.lock block
InsideLock == BagCardinality([w \in {x \in BagToSet(threads) :
                                       x.pc \in {"store_result", "store_error",
                                                 "count"}}
                                |-> threads[w]])
\* worker threads in a call that blocks: the dequeue, the lookup, the delay
\* sleep, the progress callback
Blocked == BagCardinality([w \in {x \in BagToSet(threads) :
                                    x.pc \in {"get", "invoke", "sleep",
                                              "callback"}}
                             |-> threads[w]])

\* _worker: investigate_profile returns; with self.lock is entered
WorkerLockResult(w) ==
    /\ BagIn(w, threads)
    /\ w.pc = "invoke"
    /\ ~ lock
    /\ lock' = TRUE
    /\ threads' = Exchange(threads, w,
                           Worker(w.listed, "store_result", w.username))
    /\ UNCHANGED <<queue, unfinished, results, errors, stop_event, workers,
                   monitors, userpc, calls, callbacks, notLocked>>

\* _worker with a store that goes on to the progress block without leaving
\* the with self.lock block
WorkerStoreResultHeld(w) ==
    /\ BagIn(w, threads)
    /\ w.pc = "store_result"
    /\ results' = results \cup {w.username}
    /\ threads' = Exchange(threads, w, Worker(w.listed, "progress", None))
    /\ UNCHANGED <<queue, unfinished, errors, stop_event, workers,
                   monitors, userpc, calls, callbacks, lock, notLocked>>

\* _worker: self.results[username] = result, and the with block is left
WorkerStoreResult(w) ==
    /\ BagIn(w, threads)
    /\ w.pc = "store_result"
    /\ results' = results \cup {w.username}
    /\ lock' = FALSE
    /\ threads' = Exchange(threads, w, Worker(w.listed, "progress", None))
    /\ UNCHANGED <<queue, unfinished, errors, stop_event, workers,
                   monitors, userpc, calls, callbacks, notLocked>>

\* _worker: investigate_profile raises; with self.lock is entered in the
\* handler
WorkerLockError(w) ==
    /\ BagIn(w, threads)
    /\ w.pc = "invoke"
    /\ ~ lock
    /\ lock' = TRUE
    /\ threads' = Exchange(threads, w,
                           Worker(w.listed, "store_error", w.username))
    /\ UNCHANGED <<queue, unfinished, results, errors, stop_event, workers,
                   monitors, userpc, calls, callbacks, notLocked>>

\* _worker: self.errors[username] = str(e), and the with block is left
WorkerStoreError(w) ==
    /\ BagIn(w, threads)
    /\ w.pc = "store_error"
    /\ errors' = errors \cup {w.username}
    /\ lock' = FALSE
    /\ threads' = Exchange(threads, w, Worker(w.listed, "progress", None))
    /\ UNCHANGED <<queue, unfinished, results, stop_event, workers,
                   monitors, userpc, calls, callbacks, notLocked>>

\* _worker with a progress_callback set: with self.lock is entered
WorkerLockCount(w) ==
    /\ BagIn(w, threads)
    /\ w.pc = "progress"
    /\ ~ lock
    /\ lock' = TRUE
    /\ threads' = Exchange(threads, w, Worker(w.listed, "count", None))
    /\ UNCHANGED <<queue, unfinished, results, errors, stop_event, workers,
                   monitors, userpc, calls, callbacks, notLocked>>

\* _worker: current and total are read, and the with block is left
WorkerCount(w) ==
    /\ BagIn(w, threads)
    /\ w.pc = "count"
    /\ lock' = FALSE
    /\ threads' = Exchange(threads, w, Worker(w.listed, "callback", None))
    /\ UNCHANGED <<queue, unfinished, results, errors, stop_event, workers,
                   monitors, userpc, calls, callbacks, notLocked>>

\* _worker: self.progress_callback(username, success, current, total)
\* returns
WorkerCallback(w) ==
    /\ BagIn(w, threads)
    /\ w.pc = "callback"
    /\ threads' = Exchange(threads, w, Worker(w.listed, "task_done", None))
    /\ UNCHANGED <<queue, unfinished, results, errors, stop_event, workers,
                   monitors, userpc, calls, callbacks, notBatch>>

\* _worker: self.progress_callback(...) raises; the outer handler logs it
WorkerCallbackRaises(w) ==
    /\ BagIn(w, threads)
    /\ w.pc = "callback"
    /\ threads' = Exchange(threads, w, Worker(w.listed, "loop", None))
    /\ UNCHANGED <<queue, unfinished, results, errors, stop_event, workers,
                   monitors, userpc, calls, callbacks, notBatch>>

(***************************************************************************)
(* PerformanceOptimizer: exponential_backoff and retry_with_backoff        *)
(* Delays are in milliseconds.                                             *)
(***************************************************************************)
\* the defaults of exponential_backoff: base_delay = 1.0 s, max_delay = 60.0 s
default_base_delay == 1000
default_max_delay == 60000
\* the defaults of __init__: max_retries = 3
default_max_retries == 3

\* the arguments exponential_backoff is called with
BaseDelays == {0, 500, default_base_delay}
MaxDelays == {3000, default_max_delay}
\* random.uniform(0.1, 0.3), in percent: both ends and values between
JitterPercents == {10, 17, 25, 30}

RECURSIVE Pow2(_)
Pow2(n) == IF n = 0 THEN 1 ELSE 2 * Pow2(n - 1)
min(a, b) == IF a <= b THEN a ELSE b

\* exponential_backoff without the cap
backoff_delay_uncapped(n, base_delay, max_delay) == base_delay * Pow2(n)

\* exponential_backoff: delay = min(base_delay * (2 ** attempt), max_delay)
backoff_delay(n, base_delay, max_delay) ==
    min(base_delay * Pow2(n), max_delay)

\* PerformanceOptimizer.exponential_backoff, with the jitter factor drawn
exponential_backoff(n, base_delay, max_delay, percent) ==
    LET delay == backoff_delay(n, base_delay, max_delay)
        jitter == (percent * delay) \div 100
    IN delay + jitter

\* the record of one call of exponential_backoff
BackoffCallOf(n, base_delay, max_delay, percent) ==
    [attempt |-> n, base_delay |-> base_delay, max_delay |-> max_delay,
     percent |-> percent,
     value |-> exponential_backoff(n, base_delay, max_delay, percent)]

\* the exceptions func raises that the first handler catches, and one it
\* does not
NetworkExceptions == {"RequestException", "Timeout", "ConnectionError"}
OtherExceptions == {"ValueError"}
\* an exception object: its type and the attempt that raised it
ExceptionOf(type, n) == [type |-> type, attempt |-> n]
NoException == ExceptionOf("None", 0)
\* how a call ended
Returned(n) == [kind |-> "returned", attempt |-> n, exc |-> NoException]
Raised(e) == [kind |-> "raised", attempt |-> e.attempt, exc |-> e]
NoOutcome == [kind |-> "none", attempt |-> 0, exc |-> NoException]

\* PerformanceOptimizer.__init__ and no call made yet
RetryInit ==
    /\ max_retries \in 0..MaxRetries
    /\ attempt = 0
    /\ last_exception = NoException
    /\ rpc = "idle"
    /\ invocations = 0
    /\ sleeps = 0
    /\ outcome = NoOutcome
    /\ backoff = BackoffCallOf(0, default_base_delay, default_max_delay, 10)

\* a direct call of exponential_backoff
BackoffCall ==
    /\ rpc = "idle"
    /\ \E n \in 0..MaxAttempt, b \in BaseDelays, m \in MaxDelays,
          j \in JitterPercents :
          backoff' = BackoffCallOf(n, b, m, j)
    /\ UNCHANGED <<max_retries, attempt, last_exception, rpc, invocations,
                   sleeps, outcome, notRetry>>

\* retry_with_backoff is called: last_exception = None, the loop begins
RetryCall ==
    /\ rpc = "idle"
    /\ attempt' = 0
    /\ last_exception' = NoException
    /\ invocations' = 0
    /\ sleeps' = 0
    /\ outcome' = NoOutcome
    /\ rpc' = "try"
    /\ UNCHANGED <<max_retries, backoff, notRetry>>

\* return func(*args, **kwargs)
FuncOk ==
    /\ rpc = "try"
    /\ invocations' = invocations + 1
    /\ outcome' = Returned(attempt)
    /\ rpc' = "idle"
    /\ UNCHANGED <<max_retries, attempt, last_exception, sleeps, backoff,
                   notRetry>>

\* the test of the first handler with <= for <
should_retry_once_more(n, limit) == n <= limit

\* the test of the first handler: attempt < self.max_retries
should_retry(n, limit) == n < limit

\* func raises a network exception: the first handler
FuncNetworkError ==
    /\ rpc = "try"
    /\ invocations' = invocations + 1
    /\ \E type \in NetworkExceptions :
          LET e == ExceptionOf(type, attempt)
          IN /\ last_exception' = e
             /\ IF should_retry(attempt, max_retries)
                THEN /\ \E j \in JitterPercents :
                          backoff' = BackoffCallOf(attempt, default_base_delay,
                                                   default_max_delay, j)
                     /\ rpc' = "sleep"
                     /\ UNCHANGED outcome
                ELSE \* break, then raise last_exception
                     /\ outcome' = Raised(e)
                     /\ rpc' = "idle"
                     /\ UNCHANGED backoff
    /\ UNCHANGED <<max_retries, attempt, sleeps, notRetry>>

\* func raises an exception of another type, handled as a network exception
FuncOtherErrorRetried ==
    /\ rpc = "try"
    /\ invocations' = invocations + 1
    /\ \E type \in OtherExceptions :
          /\ last_exception' = ExceptionOf(type, attempt)
          /\ IF should_retry(attempt, max_retries)
             THEN rpc' = "sleep" /\ UNCHANGED outcome
             ELSE outcome' = Raised(ExceptionOf(type, attempt)) /\ rpc' = "idle"
    /\ UNCHANGED <<max_retries, attempt, sleeps, backoff, notRetry>>

\* func raises an exception of another type: the second handler, raise e
FuncOtherError ==
    /\ rpc = "try"
    /\ invocations' = invocations + 1
    /\ \E type \in OtherExceptions :
          outcome' = Raised(ExceptionOf(type, attempt))
    /\ rpc' = "idle"
    /\ UNCHANGED <<max_retries, attempt, last_exception, sleeps, backoff,
                   notRetry>>

\* time.sleep(delay) returns and the for loop takes its next value, or is
\* exhausted and raise last_exception follows
SleepEnds ==
    /\ rpc = "sleep"
    /\ sleeps' = sleeps + 1
    /\ IF attempt + 1 < max_retries + 1
       THEN attempt' = attempt + 1 /\ rpc' = "try" /\ UNCHANGED outcome
       ELSE outcome' = Raised(last_exception) /\ rpc' = "idle"
            /\ UNCHANGED attempt
    /\ UNCHANGED <<max_retries, last_exception, invocations, backoff, notRetry>>

(***************************************************************************)
(* rate_limit_decorator. Times are in seconds.                             *)
(***************************************************************************)
\* the calls_per_minute the decorator is applied with
CallsPerMinute == {20, 30, 60}
\* min_interval = 60.0 / calls_per_minute
min_interval == 60 \div calls_per_minute

\* a thread's place in wrapper
RateThread(p, wake) == [pc |-> p, wake |-> wake]

\* the decorator applied, no call made: last_called = [0.0]
RateInit ==
    /\ calls_per_minute \in CallsPerMinute
    /\ last_called = 0
    /\ rl = [t \in Threads |-> RateThread("idle", 0)]

\* wrapper, up to the sleep: current_time = time.time() and the test of
\* time_since_last
RateEnter(t) ==
    /\ rl[t].pc = "idle"
    /\ LET current_time == now
           time_since_last == current_time - last_called
       IN IF time_since_last < min_interval
          THEN LET sleep_time == min_interval - time_since_last
               IN rl' = [rl EXCEPT ![t] = RateThread("sleep", now + sleep_time)]
          ELSE rl' = [rl EXCEPT ![t] = RateThread("stamp", now)]
    /\ UNCHANGED <<now, calls_per_minute, last_called, notRate>>

\* time.sleep(sleep_time) returns, not before sleep_time has passed
RateWake(t) ==
    /\ rl[t].pc = "sleep"
    /\ now >= rl[t].wake
    /\ rl' = [rl EXCEPT ![t] = RateThread("stamp", now)]
    /\ UNCHANGED <<now, calls_per_minute, last_called, notRate>>

\* last_called[0] = time.time() and the underlying function begins
RateStamp(t) ==
    /\ rl[t].pc = "stamp"
    /\ last_called' = now
    /\ rl' = [rl EXCEPT ![t] = RateThread("func", now)]
    /\ UNCHANGED <<now, calls_per_minute, notRate>>

\* the underlying function returns or raises
RateFuncEnds(t) ==
    /\ rl[t].pc = "func"
    /\ rl' = [rl EXCEPT ![t] = RateThread("idle", 0)]
    /\ UNCHANGED <<now, calls_per_minute, last_called, notRate>>

\* a second passes
RateTick ==
    /\ now < 60 + MaxRateTicks
    /\ now' = now + 1
    /\ UNCHANGED <<rateVars, notRate>>

(***************************************************************************)
(* TikTokAPI and LinkedInAPI: _make_request, with a cache manager given    *)
(***************************************************************************)
Apis == {"tiktok", "linkedin"}
Methods == {"GET", "POST"}
\* the endpoint the requests go to
ClientEndpoint == "user"
\* cache_ttl, the default of _make_request
cache_ttl == 3600
\* Retry(status_forcelist=..., allowed_methods=...) of the session's adapter:
\* a response with one of these statuses to one of these methods is retried
\* by the adapter and ends in requests.exceptions.RetryError
status_forcelist == {429, 500, 502, 503, 504}
allowed_methods == {"HEAD", "GET", "OPTIONS"}

\* the JSON bodies the remote API answers with, a body with a truthy 'error'
\* member, and the empty response content
Payloads == {[payload |-> "p1"], [payload |-> "p2"]}
ErrorBody == [payload |-> "error"]
NoContent == [payload |-> ""]
\* the {} that _make_request returns for an empty response content
EmptyResult == [payload |-> "{}"]
\* what a remote request ends in: a response with a status and a body, or,
\* with status 0, a connection error and no response
Answer(status, body) == [status |-> status, body |-> body]
ConnectionFailure == Answer(0, NoContent)
Answers == {Answer(200, b) : b \in Payloads \cup {ErrorBody, NoContent}}
           \cup {Answer(s, NoContent) : s \in {401, 404, 429}}
           \cup {ConnectionFailure}

\* no _make_request call made yet
NoRequest == [pc |-> "idle", method |-> None, params |-> NoParams,
              use_cache |-> FALSE, remote |-> FALSE, value |-> NoneValue,
              n |-> 0]

\* TikTokAPI.__init__ and LinkedInAPI.__init__: the client and its circuit
\* breaker; a LinkedIn client may have a refresh token in its environment
ClientInit ==
    /\ client \in {[api |-> "tiktok", refresh_token |-> FALSE],
                   [api |-> "linkedin", refresh_token |-> FALSE],
                   [api |-> "linkedin", refresh_token |-> TRUE]}
    /\ request = NoRequest
    /\ fetched = {}
    /\ failure_threshold = 3
    /\ recovery_timeout = IF client.api = "tiktok" THEN 120 ELSE 180
    /\ failure_count = 0
    /\ last_failure_time = NoTime
    /\ state = "CLOSED"
    /\ pc = [t \in Threads |-> "idle"]
    /\ out = [t \in Threads |-> "none"]
    /\ admit = [t \in Threads |-> "none"]
    /\ streak = Streak(0)

\* a call of _make_request by the user of the client
MakeRequest(method, params, use_cache) ==
    /\ request.pc \in {"idle", "returned", "raised"}
    /\ request.n < MaxRequests
    /\ request' = [pc |-> "check_cache", method |-> method, params |-> params,
                   use_cache |-> use_cache, remote |-> FALSE,
                   value |-> NoneValue, n |-> request.n + 1]
    /\ UNCHANGED <<client, fetched, now, cacheVars, breakerVars, notClient>>

\* what _make_request returns on a hit with the whole cached object
CachedWrapper(cached_data) == cached_data

\* _make_request on a hit: return cached_data.get('data')
CachedPayload(cached_data) == cached_data.data

\* _make_request, the cache lookup, when nothing goes wrong under the cache:
\* a hit is returned, anything else goes on to the remote request
CheckCache ==
    /\ request.pc = "check_cache"
    /\ IF request.use_cache /\ request.method = "GET"
       THEN /\ GetStep(client.api, ClientEndpoint, request.params, "default",
                       "none")
            /\ request' = IF ret'.val # NoneValue
                          THEN [request EXCEPT
                                  !.pc = "returned",
                                  !.value = CachedPayload(ret'.val)]
                          ELSE [request EXCEPT !.pc = "remote"]
       ELSE /\ request' = [request EXCEPT !.pc = "remote"]
            /\ UNCHANGED <<files, ret>>
    /\ UNCHANGED <<client, fetched, now, breakerVars, notClient>>

\* _make_request, from the call through the circuit breaker to its return,
\* its raise, its sleep on a 429 or its token refresh on a 401
RemoteRequest(answer) ==
    /\ request.pc = "remote"
    /\ IF state = "OPEN" /\ ~ should_attempt_reset
       THEN \* the wrapper raises Exception("Circuit breaker está OPEN"),
            \* which neither handler of _make_request catches
            /\ request' = [request EXCEPT !.pc = "raised"]
            /\ UNCHANGED <<files, ret, fetched, state, failure_count,
                           last_failure_time>>
       ELSE IF \/ answer = ConnectionFailure
               \/ /\ answer.status \in status_forcelist
                  /\ request.method \in allowed_methods
       THEN \* a RequestException leaves retry_with_backoff: _on_failure, and
            \* the handler raises Exception("Erro de conexão ...")
            /\ failure_count' = failure_count + 1
            /\ last_failure_time' = now
            /\ state' = IF ShouldOpen(failure_count + 1, failure_threshold)
                        THEN "OPEN"
                        ELSE IF state = "OPEN" THEN "HALF_OPEN" ELSE state
            /\ request' = [request EXCEPT !.pc = "raised", !.remote = TRUE]
            /\ UNCHANGED <<files, ret, fetched>>
       ELSE \* a response comes back: _on_success
            /\ failure_count' = 0
            /\ state' = "CLOSED"
            /\ UNCHANGED last_failure_time
            /\ IF answer.status = 200
               THEN IF answer.body = NoContent
                    THEN /\ request' = [request EXCEPT !.pc = "returned",
                                          !.remote = TRUE,
                                          !.value = EmptyResult]
                         /\ UNCHANGED <<files, ret, fetched>>
                    ELSE IF client.api = "tiktok" /\ answer.body = ErrorBody
                    THEN /\ request' = [request EXCEPT !.pc = "raised",
                                          !.remote = TRUE]
                         /\ UNCHANGED <<files, ret, fetched>>
                    ELSE /\ IF request.use_cache /\ request.method = "GET"
                            THEN SetStep(client.api, ClientEndpoint,
                                         request.params, answer.body,
                                         "default", cache_ttl)
                            ELSE UNCHANGED <<files, ret>>
                         /\ fetched' = fetched \cup
                                         {<<request.params, answer.body>>}
                         /\ request' = [request EXCEPT !.pc = "returned",
                                          !.remote = TRUE,
                                          !.value = answer.body]
               ELSE /\ request' = [request EXCEPT
                                     !.pc = CASE answer.status = 401 -> "refresh"
                                              [] answer.status = 429 -> "sleep"
                                              [] OTHER -> "raised",
                                     !.remote = TRUE]
                    /\ UNCHANGED <<files, ret, fetched>>
    /\ UNCHANGED <<client, now, failure_threshold, recovery_timeout, pc, out,
                   admit, streak, notClient>>

\* _make_request on a 429: time.sleep(retry_after) is over, and the request
\* is made again by a call of _make_request from inside the handler
RetryAfterSleep ==
    /\ request.pc = "sleep"
    /\ request' = [request EXCEPT !.pc = "check_cache"]
    /\ UNCHANGED <<client, fetched, now, cacheVars, breakerVars, notClient>>

\* _make_request on a 401: _refresh_access_token, and the request is made
\* again by a call of _make_request from inside the handler. TikTokAPI reads
\* self.auth_url, which it never sets; LinkedInAPI needs a refresh token and
\* a token endpoint that grants a new token
RefreshAccessToken(granted) ==
    /\ request.pc = "refresh"
    /\ request' = IF /\ client.api = "linkedin"
                     /\ client.refresh_token
                     /\ granted
                  THEN [request EXCEPT !.pc = "check_cache"]
                  ELSE [request EXCEPT !.pc = "raised"]
    /\ UNCHANGED <<client, fetched, now, cacheVars, breakerVars, notClient>>

vars == <<now, files, ret, failure_threshold, recovery_timeout, failure_count,
         last_failure_time, state, pc, out, admit, streak, queue, unfinished,
         results, errors, stop_event, workers, threads, monitors, userpc,
         calls, callbacks, max_retries, attempt, last_exception, rpc,
         invocations, sleeps, outcome, backoff, calls_per_minute,
         last_called, rl, lookup, gets, progress, lock, client, request,
         fetched>>

CacheInit ==
    /\ files = << >>
    /\ ret = Call("init", NoneValue, NoneValue)

GetCall == \E p \in Platforms, e \in Endpoints, q \in ParamsSet, ct \in CacheTypes,
              fault \in Faults :
               GetWith(p, e, q, ct, fault)
SetCall == \E p \in Platforms, e \in Endpoints, q \in ParamsSet, v \in Values,
              ct \in SetCacheTypes, t \in TtlOverrides :
               Set(p, e, q, v, ct, t)
ClearCall == \E p \in Platforms \cup {None}, e \in Endpoints \cup {None},
                x \in BOOLEAN :
               Clear(p, e, x)

\* a component no call is made on: as constructed with the defaults
BreakerUnused ==
    /\ failure_threshold = 5
    /\ recovery_timeout = 60
    /\ failure_count = 0
    /\ last_failure_time = NoTime
    /\ state = "CLOSED"
    /\ pc = [t \in Threads |-> "idle"]
    /\ out = [t \in Threads |-> "none"]
    /\ admit = [t \in Threads |-> "none"]
    /\ streak = Streak(0)
CacheUnused == CacheInit
BatchUnused == BatchInit
RetryUnused ==
    /\ max_retries = default_max_retries
    /\ attempt = 0
    /\ last_exception = NoException
    /\ rpc = "idle"
    /\ invocations = 0
    /\ sleeps = 0
    /\ outcome = NoOutcome
    /\ backoff = BackoffCallOf(0, default_base_delay, default_max_delay, 10)

RateUnused ==
    /\ calls_per_minute = 60
    /\ last_called = 0
    /\ rl = [t \in Threads |-> RateThread("idle", 0)]
\* BatchProcessor.__init__: self.lock = threading.Lock()
LockInit == lock = FALSE
LockUnused == LockInit
\* no client constructed
ClientUnused ==
    /\ client = [api |-> None, refresh_token |-> FALSE]
    /\ request = NoRequest
    /\ fetched = {}
\* no call of the progress callback made yet
ProgressInit == progress = [fired |-> 0, current |-> 0, total |-> 0]
ProgressUnused == ProgressInit
StatsInit == gets = [hits |-> 0, misses |-> 0]
StatsUnused == StatsInit
KeyUnused ==
    lookup = [a |-> Request("instagram", "user", EmptyDict),
              b |-> Request("instagram", "user", EmptyDict),
              path_a |-> NoPath, path_b |-> NoPath, hit |-> FALSE,
              done |-> FALSE]

\* the cache, called from one thread
InitCache ==
    now = 0 /\ CacheInit /\ BreakerUnused /\ BatchUnused /\ RetryUnused
    /\ RateUnused /\ KeyUnused /\ StatsUnused
    /\ ProgressUnused
    /\ LockUnused /\ ClientUnused
NextCache == GetCall \/ SetCall \/ ClearCall \/ Tick
SpecCache == InitCache /\ [][NextCache]_vars

\* one breaker, called from one thread
InitBreaker ==
    now = 0 /\ BreakerInit /\ CacheUnused /\ BatchUnused /\ RetryUnused
    /\ RateUnused /\ KeyUnused /\ StatsUnused
    /\ ProgressUnused
    /\ LockUnused /\ ClientUnused
NextBreaker == BreakerStep(MainThread) \/ ClockTick
SpecBreaker == InitBreaker /\ [][NextBreaker]_vars

\* one breaker, called from several threads
NextBreakerConc == (\E t \in Threads : BreakerStep(t)) \/ ClockTick
SpecBreakerConc == InitBreaker /\ [][NextBreakerConc]_vars

\* one batch processor: a user thread, the worker threads and the monitor
\* threads it starts
InitBatch ==
    now = 0 /\ BatchInit /\ CacheUnused /\ BreakerUnused /\ RetryUnused
    /\ RateUnused /\ KeyUnused /\ StatsUnused
    /\ ProgressUnused
    /\ LockUnused /\ ClientUnused
NextBatch ==
    \/ \E u \in UsernameInputs : AddProfile(u)
    \/ Start
    \/ UserStopBegin
    \/ UserStopEnd
    \/ \E w \in WorkerThreads : WorkerLoop(w)
    \/ \E w \in WorkerThreads : WorkerGet(w)
    \/ \E w \in WorkerThreads : WorkerSuccess(w)
    \/ \E w \in WorkerThreads : WorkerFailure(w)
    \/ \E w \in WorkerThreads : WorkerProgress(w)
    \/ \E w \in WorkerThreads : WorkerProgressRaises(w)
    \/ \E w \in WorkerThreads : WorkerTaskDone(w)
    \/ \E w \in WorkerThreads : WorkerSleep(w)
    \/ \E m \in MonitorThreads : MonitorJoin(m)
    \/ \E m \in MonitorThreads : MonitorCallback(m)
    \/ \E m \in MonitorThreads : MonitorStopBegin(m)
    \/ \E m \in MonitorThreads : MonitorStopEnd(m)
SpecBatch == InitBatch /\ [][NextBatch]_vars

\* one PerformanceOptimizer, called from one thread
InitRetry ==
    now = 0 /\ RetryInit /\ CacheUnused /\ BreakerUnused /\ BatchUnused
    /\ RateUnused /\ KeyUnused /\ StatsUnused
    /\ ProgressUnused
    /\ LockUnused /\ ClientUnused
NextRetry ==
    \/ BackoffCall
    \/ RetryCall
    \/ FuncOk
    \/ FuncNetworkError
    \/ FuncOtherError
    \/ SleepEnds
SpecRetry == InitRetry /\ [][NextRetry]_vars

\* one rate-limited function, called from several threads; time.time() reads
\* more than any min_interval (at most 60 s, for calls_per_minute = 1)
InitRate ==
    now = 60 /\ RateInit /\ CacheUnused /\ BreakerUnused /\ BatchUnused
    /\ RetryUnused /\ KeyUnused /\ StatsUnused
    /\ ProgressUnused
    /\ LockUnused /\ ClientUnused
NextRate ==
    \/ \E t \in Threads : RateEnter(t)
    \/ \E t \in Threads : RateWake(t)
    \/ \E t \in Threads : RateStamp(t)
    \/ \E t \in Threads : RateFuncEnds(t)
    \/ RateTick
SpecRate == InitRate /\ [][NextRate]_vars

\* the cache with a caller that counts its gets and asks for the statistics
GetCountedCall == \E p \in Platforms, e \in Endpoints, q \in ParamsSet,
                     ct \in SetCacheTypes :
                      GetCounted(p, e, q, ct)
GetStatsCall == \E p \in Platforms \cup {None} : GetStats(p)
InitStats ==
    now = 0 /\ CacheInit /\ StatsInit /\ BreakerUnused /\ BatchUnused
    /\ RetryUnused /\ RateUnused /\ KeyUnused /\ ProgressUnused
    /\ LockUnused /\ ClientUnused
NextStats == SetCall \/ GetCountedCall \/ GetStatsCall
SpecStats == InitStats /\ [][NextStats]_vars

\* the key and the file path of two requests
InitKey ==
    now = 0 /\ KeyInit /\ CacheUnused /\ BreakerUnused /\ BatchUnused
    /\ RetryUnused /\ RateUnused /\ StatsUnused
    /\ ProgressUnused
    /\ LockUnused /\ ClientUnused
NextKey == KeyLookup
SpecKey == InitKey /\ [][NextKey]_vars

\* BatchProcessor.add_profile called before the first start
AddProfileBeforeStart(username) == calls.starts = 0 /\ AddProfile(username)

\* one batch processor whose usernames are all enqueued before start
NextBatchRun ==
    \/ \E u \in UsernameInputs : AddProfileBeforeStart(u)
    \/ Start
    \/ UserStopBegin
    \/ UserStopEnd
    \/ \E w \in WorkerThreads : WorkerLoop(w)
    \/ \E w \in WorkerThreads : WorkerGet(w)
    \/ \E w \in WorkerThreads : WorkerSuccess(w)
    \/ \E w \in WorkerThreads : WorkerFailure(w)
    \/ \E w \in WorkerThreads : WorkerProgress(w)
    \/ \E w \in WorkerThreads : WorkerProgressRaises(w)
    \/ \E w \in WorkerThreads : WorkerTaskDone(w)
    \/ \E w \in WorkerThreads : WorkerSleep(w)
    \/ \E m \in MonitorThreads : MonitorJoin(m)
    \/ \E m \in MonitorThreads : MonitorCallback(m)
    \/ \E m \in MonitorThreads : MonitorStopBegin(m)
    \/ \E m \in MonitorThreads : MonitorStopEnd(m)
SpecBatchRun == InitBatch /\ [][NextBatchRun]_vars

\* one batch processor with a progress callback set, whose usernames are all
\* enqueued before start
InitBatchProgress ==
    now = 0 /\ BatchInit /\ ProgressInit /\ CacheUnused /\ BreakerUnused
    /\ RetryUnused /\ RateUnused /\ KeyUnused /\ StatsUnused
    /\ LockUnused /\ ClientUnused
NextBatchProgress ==
    \/ \E u \in UsernameInputs : AddProfileBeforeStart(u)
    \/ Start
    \/ UserStopBegin
    \/ UserStopEnd
    \/ \E w \in WorkerThreads : WorkerLoop(w)
    \/ \E w \in WorkerThreads : WorkerGet(w)
    \/ \E w \in WorkerThreads : WorkerSuccess(w)
    \/ \E w \in WorkerThreads : WorkerFailure(w)
    \/ \E w \in WorkerThreads : WorkerReport(w)
    \/ \E w \in WorkerThreads : WorkerReportRaises(w)
    \/ \E w \in WorkerThreads : WorkerTaskDone(w)
    \/ \E w \in WorkerThreads : WorkerSleep(w)
    \/ \E m \in MonitorThreads : MonitorJoin(m)
    \/ \E m \in MonitorThreads : MonitorCallback(m)
    \/ \E m \in MonitorThreads : MonitorStopBegin(m)
    \/ \E m \in MonitorThreads : MonitorStopEnd(m)
SpecBatchProgress == InitBatchProgress /\ [][NextBatchProgress]_vars

\* BatchProcessor.start called once
StartFirst == calls.starts = 0 /\ Start

\* one batch processor whose usernames are all enqueued before its one start
\* and that the user never stops; every thread that can take a step
\* eventually takes one, and every lookup and every callback ends
NextBatchLive ==
    \/ \E u \in UsernameInputs : AddProfileBeforeStart(u)
    \/ StartFirst
    \/ \E w \in WorkerThreads : WorkerLoop(w)
    \/ \E w \in WorkerThreads : WorkerGet(w)
    \/ \E w \in WorkerThreads : WorkerSuccess(w)
    \/ \E w \in WorkerThreads : WorkerFailure(w)
    \/ \E w \in WorkerThreads : WorkerProgress(w)
    \/ \E w \in WorkerThreads : WorkerProgressRaises(w)
    \/ \E w \in WorkerThreads : WorkerTaskDone(w)
    \/ \E w \in WorkerThreads : WorkerSleep(w)
    \/ \E m \in MonitorThreads : MonitorJoin(m)
    \/ \E m \in MonitorThreads : MonitorCallback(m)
    \/ \E m \in MonitorThreads : MonitorStopBegin(m)
    \/ \E m \in MonitorThreads : MonitorStopEnd(m)
FairBatch ==
    /\ WF_vars(\E w \in WorkerThreads : WorkerLoop(w))
    /\ WF_vars(\E w \in WorkerThreads : WorkerGet(w))
    /\ WF_vars(\E w \in WorkerThreads : WorkerSuccess(w) \/ WorkerFailure(w))
    /\ WF_vars(\E w \in WorkerThreads :
                  WorkerProgress(w) \/ WorkerProgressRaises(w))
    /\ WF_vars(\E w \in WorkerThreads : WorkerTaskDone(w))
    /\ WF_vars(\E w \in WorkerThreads : WorkerSleep(w))
    /\ WF_vars(\E m \in MonitorThreads : MonitorJoin(m))
    /\ WF_vars(\E m \in MonitorThreads : MonitorCallback(m))
    /\ WF_vars(\E m \in MonitorThreads : MonitorStopBegin(m))
    /\ WF_vars(\E m \in MonitorThreads : MonitorStopEnd(m))
SpecBatchLive == InitBatch /\ [][NextBatchLive]_vars /\ FairBatch

\* one batch processor with a progress callback set, at the level of its
\* with self.lock blocks; the usernames are enqueued before its one start
InitBatchLock ==
    now = 0 /\ BatchInit /\ LockInit /\ CacheUnused /\ BreakerUnused
    /\ RetryUnused /\ RateUnused /\ KeyUnused /\ StatsUnused
    /\ ProgressUnused /\ ClientUnused
NextBatchLock ==
    \/ \E u \in UsernameInputs : AddProfileBeforeStart(u)
    \/ StartFirst
    \/ \E w \in LockWorkerThreads : WorkerLoop(w)
    \/ \E w \in LockWorkerThreads : WorkerGet(w)
    \/ \E w \in LockWorkerThreads : WorkerLockResult(w)
    \/ \E w \in LockWorkerThreads : WorkerStoreResult(w)
    \/ \E w \in LockWorkerThreads : WorkerLockError(w)
    \/ \E w \in LockWorkerThreads : WorkerStoreError(w)
    \/ \E w \in LockWorkerThreads : WorkerLockCount(w)
    \/ \E w \in LockWorkerThreads : WorkerCount(w)
    \/ \E w \in LockWorkerThreads : WorkerCallback(w)
    \/ \E w \in LockWorkerThreads : WorkerCallbackRaises(w)
    \/ \E w \in LockWorkerThreads : WorkerTaskDone(w)
    \/ \E w \in LockWorkerThreads : WorkerSleep(w)
    \/ \E m \in MonitorThreads : MonitorJoin(m)
    \/ \E m \in MonitorThreads : MonitorCallback(m)
    \/ \E m \in MonitorThreads : MonitorStopBegin(m)
    \/ \E m \in MonitorThreads : MonitorStopEnd(m)
SpecBatchLock == InitBatchLock /\ [][NextBatchLock]_vars

\* one API client with a cache manager, called from one thread
MakeRequestCall == \E m \in Methods, q \in ParamsSet, c \in BOOLEAN :
                      MakeRequest(m, q, c)
RemoteRequestStep == \E answer \in Answers : RemoteRequest(answer)
RefreshAccessTokenStep == \E granted \in BOOLEAN : RefreshAccessToken(granted)
InitClient ==
    now = 0 /\ CacheInit /\ ClientInit /\ BatchUnused /\ RetryUnused
    /\ RateUnused /\ KeyUnused /\ StatsUnused /\ ProgressUnused
    /\ LockUnused
NextClient ==
    \/ MakeRequestCall
    \/ CheckCache
    \/ RemoteRequestStep
    \/ RetryAfterSleep
    \/ RefreshAccessTokenStep
    \/ Tick
SpecClient == InitClient /\ [][NextClient]_vars

\* the same client, when every step of a call that can be taken is
\* eventually taken: the lookup, the remote request, the end of the sleep,
\* the token refresh
FairClient ==
    /\ WF_vars(CheckCache)
    /\ WF_vars(RemoteRequestStep)
    /\ WF_vars(RetryAfterSleep)
    /\ WF_vars(RefreshAccessTokenStep)
SpecClientLive == InitClient /\ [][NextClient]_vars /\ FairClient

(***************************************************************************)
(* Claims about CacheManager, under SpecCache                              *)
(***************************************************************************)
\* C1: a get that follows a successful set on the same (platform, endpoint,
\* params) at once returns the value that was passed to set, not a wrapper
\* around it.
C1_CacheRoundTrip ==
    [][\A p \in Platforms, e \in Endpoints, q \in ParamsSet, ct \in CacheTypes :
          LET f == CacheFile(p, e, q)
          IN (/\ ret.op = "set" /\ ret.val = TRUE
              /\ f \in DOMAIN files /\ files[f].mtime = now
              /\ files[f].content # Truncated
              /\ Get(p, e, q, ct))
             => ret'.val = files[f].content.data]_vars

\* C2: an entry whose own ttl (the one set stored with it) has elapsed is
\* never returned: a get issued more than ttl after the write is a miss.
C2_ExpiryHonoursOwnTtl ==
    [][\A p \in Platforms, e \in Endpoints, q \in ParamsSet, ct \in CacheTypes :
          LET f == CacheFile(p, e, q)
          IN (/\ f \in DOMAIN files
              /\ files[f].content # Truncated
              /\ now - files[f].content.timestamp > files[f].content.ttl
              /\ Get(p, e, q, ct))
             => ret'.val = NoneValue]_vars

\* C3: clear(platform=A) makes every get on A a miss and leaves every file
\* of every other platform as it was, each still returned by get as before.
C3_ClearPlatformSelective ==
    [][\A A \in Platforms :
          (ret'.op = "clear" /\ Clear(A, None, FALSE)) =>
             /\ \A e \in Endpoints, q \in ParamsSet, ct \in CacheTypes :
                   GetResult(files', now', A, e, q, ct) = NoneValue
             /\ \A f \in DOMAIN files :
                   f[1] # A => (f \in DOMAIN files' /\ files'[f] = files[f])
             /\ \A B \in Platforms \ {A}, e \in Endpoints, q \in ParamsSet,
                   ct \in CacheTypes :
                   GetResult(files', now', B, e, q, ct)
                      = GetResult(files, now, B, e, q, ct)]_vars

\* C3, its case: clear(platform="tiktok") removed a file while instagram
\* holds an entry that get still returns
C3_Witness ==
    /\ ret.op = "clear"
    /\ ret.args = [platform |-> "tiktok", endpoint |-> None,
                   expired_only |-> FALSE]
    /\ ret.val >= 1
    /\ \E e \in Endpoints, q \in ParamsSet :
          GetResult(files, now, "instagram", e, q, "default") # NoneValue

(***************************************************************************)
(* Claims about CircuitBreaker called from one thread, under SpecBreaker   *)
(***************************************************************************)
\* C4: counted from a reset breaker (CLOSED, failure_count = 0), after fewer
\* than failure_threshold failing calls in a row the breaker is CLOSED, and
\* after exactly failure_threshold of them it is OPEN.
C4_OpensAtThreshold ==
    (pc[MainThread] = "idle" /\ streak.clean) =>
        /\ streak.n <= failure_threshold
        /\ streak.n = 0 => (state = "CLOSED" /\ failure_count = 0)
        /\ streak.n < failure_threshold => state = "CLOSED"
        /\ streak.n = failure_threshold => state = "OPEN"

\* C4, its case: two failing calls in a row opened a breaker of threshold 2
C4_Witness ==
    /\ pc[MainThread] = "idle"
    /\ failure_threshold = 2
    /\ streak = Streak(2)
    /\ state = "OPEN"

\* C5: a call made while the breaker is OPEN and less than recovery_timeout
\* has passed since last_failure_time is rejected: the wrapped function is
\* not invoked and state, failure_count and last_failure_time stay as they
\* are.
C5_OpenRejects ==
    [][\A t \in Threads :
          (/\ state = "OPEN"
           /\ now - last_failure_time < recovery_timeout
           /\ Enter(t))
          => /\ pc'[t] = "idle"
             /\ out'[t] = "rejected"
             /\ state' = state
             /\ failure_count' = failure_count
             /\ last_failure_time' = last_failure_time]_vars

\* C5, its case: a call was rejected after time had passed since the last
\* failure, but less than recovery_timeout
C5_Witness ==
    /\ out[MainThread] = "rejected"
    /\ state = "OPEN"
    /\ now > last_failure_time
    /\ now - last_failure_time < recovery_timeout

\* C6: a call made while the breaker is OPEN and recovery_timeout or more
\* has passed since last_failure_time turns the breaker HALF_OPEN and invokes
\* the wrapped function; when that call has returned, the breaker is CLOSED
\* with failure_count = 0.
C6_RecoveryTrial ==
    [][\A t \in Threads :
          /\ (/\ state = "OPEN"
              /\ now - last_failure_time >= recovery_timeout
              /\ Enter(t))
             => (state' = "HALF_OPEN" /\ pc'[t] = "func")
          /\ (admit'[t] = "trial" /\ pc'[t] = "idle" /\ out'[t] = "ok")
             => (state' = "CLOSED" /\ failure_count' = 0)]_vars

\* C6, its case: the trial call has returned
C6_Witness ==
    /\ admit[MainThread] = "trial"
    /\ pc[MainThread] = "idle"
    /\ out[MainThread] = "ok"
    /\ state = "CLOSED"

\* C7: in every state, state = OPEN implies
\* failure_count >= failure_threshold.
C7_OpenImpliesThreshold ==
    state = "OPEN" => failure_count >= failure_threshold

\* C7, its case: a breaker opened again by a failing trial call
C7_Witness ==
    /\ state = "OPEN"
    /\ admit[MainThread] = "trial"
    /\ out[MainThread] = "failed"
    /\ failure_count > failure_threshold

\* C28: when the call admitted as the trial raises expected_exception,
\* _on_failure sets last_failure_time to the time it runs at and the breaker
\* is OPEN when the call has ended; the next trial is admitted only once
\* recovery_timeout has passed since that last_failure_time.
C28_FailedTrialReopens ==
    [][\A t \in Threads :
          /\ (/\ admit[t] = "trial"
              /\ pc[t] = "on_failure_time" /\ pc'[t] = "on_failure_open")
             => last_failure_time' = now
          /\ (admit[t] = "trial" /\ pc[t] = "on_failure_open" /\ pc'[t] = "idle")
             => (/\ state' = "OPEN"
                 /\ out'[t] = "failed"
                 /\ last_failure_time' = last_failure_time)
          /\ (pc[t] = "idle" /\ pc'[t] = "func" /\ admit'[t] = "trial")
             => now - last_failure_time >= recovery_timeout]_vars

\* C28, its case: a trial failed and opened the breaker again, and after
\* another recovery_timeout a second trial is in the wrapped function
C28_Witness ==
    /\ state = "HALF_OPEN"
    /\ admit[MainThread] = "trial"
    /\ pc[MainThread] = "func"
    /\ failure_count > failure_threshold
    /\ last_failure_time >= recovery_timeout
    /\ now - last_failure_time >= recovery_timeout

\* C29: a call that returns leaves failure_count = 0 and the breaker CLOSED;
\* so in a CLOSED breaker failure_count is the number of failing calls in a
\* row since the last success, and a failing call opens the breaker exactly
\* when that number reaches failure_threshold.
C29_SuccessResetsCount ==
    [][\A t \in Threads :
          /\ (pc[t] = "on_success_close" /\ pc'[t] = "idle")
             => (failure_count' = 0 /\ state' = "CLOSED")
          /\ (/\ state = "CLOSED" /\ streak.clean
              /\ pc[t] = "on_failure_open" /\ pc'[t] = "idle")
             => (/\ failure_count' = streak'.n
                 /\ state' = "OPEN" <=> streak'.n >= failure_threshold
                 /\ state' = "CLOSED" <=> streak'.n < failure_threshold)]_vars

\* C29, its case: in a breaker of threshold 2 a failing call has just been
\* counted as the first one although a call had failed before it: a call that
\* returned lies between the two, and the breaker is still CLOSED
C29_Witness ==
    /\ failure_threshold = 2
    /\ state = "CLOSED"
    /\ pc[MainThread] = "on_failure_time"
    /\ failure_count = 1
    /\ last_failure_time # NoTime

(***************************************************************************)
(* Claims about CircuitBreaker called from several threads, under          *)
(* SpecBreakerConc                                                         *)
(***************************************************************************)
\* C8: while the call admitted as the trial is still in the wrapped
\* function, no other thread starts an invocation of the wrapped function.
C8_SingleTrial ==
    [][\A t \in Threads :
          (pc[t] = "idle" /\ pc'[t] = "func")
          => ~ \E u \in Threads \ {t} :
                  admit[u] = "trial" /\ pc[u] = "func"]_vars

(***************************************************************************)
(* Claims about BatchProcessor, under SpecBatch                            *)
(***************************************************************************)
\* C9: the number of investigate_profile calls in flight at the same time
\* never exceeds max_concurrent.
C9_ConcurrencyBound == InFlight <= max_concurrent

\* C10: each time the queue drains, the completion callback is invoked by at
\* most one of the monitor threads that waited for it to drain.
C10_CallbackOncePerDrain == callbacks <= 1

(***************************************************************************)
(* Claims about BatchProcessor with every username enqueued before start,  *)
(* under SpecBatchRun                                                      *)
(***************************************************************************)
\* C11: when the completion callback fires for the first run, made by the
\* monitor that waited for the queue to drain, the size of results plus the
\* size of errors equals the number of usernames that were enqueued.
C11_BatchAccounting ==
    [][\A m \in MonitorThreads :
          (MonitorCallback(m) /\ m.waited /\ calls.starts = 1)
          => Cardinality(results) + Cardinality(errors) = calls.adds]_vars

\* C12: a lookup that raises puts its username in errors and changes nothing
\* else: results, the queue and the stop flag stay as they are, the worker
\* thread goes on to its next step, and no thread ends.
C12_FailureIsolated ==
    [][\A w \in WorkerThreads :
          WorkerFailure(w)
          => /\ w.username \in errors'
             /\ errors \subseteq errors'
             /\ results' = results
             /\ queue' = queue
             /\ unfinished' = unfinished
             /\ stop_event' = stop_event
             /\ BagCardinality(threads') = BagCardinality(threads)
             /\ \A x \in BagToSet(threads) \ {w} : BagIn(x, threads')]_vars

\* C12, its case: one username is in errors, another one was processed after
\* it and is in results, and the queue has drained
C12_Witness ==
    /\ "alice" \in errors
    /\ "bob" \in results
    /\ "alice" \notin results
    /\ unfinished = 0
    /\ calls.adds >= 2

\* C13: a start made while worker threads of an earlier start are still
\* running spawns no worker and no monitor thread and leaves results, errors
\* and the stop flag as they are.
C13_StartRejectedWhileRunning ==
    [][(Start /\ threads # EmptyBag)
       => /\ threads' = threads
          /\ monitors' = monitors
          /\ results' = results
          /\ errors' = errors
          /\ stop_event' = stop_event]_vars

(***************************************************************************)
(* Claims about BatchProcessor with a progress callback, under             *)
(* SpecBatchProgress                                                       *)
(***************************************************************************)
\* C30: the progress callback is called once for every item whose outcome
\* has been recorded, with current = |results| + |errors| and
\* total = current + the size of the queue, so that 1 <= current <= total at
\* every call.
C30_ProgressCallback ==
    [][\A w \in WorkerThreads :
          (WorkerReport(w) \/ WorkerReportRaises(w))
          => /\ progress'.fired = progress.fired + 1
             /\ progress'.current = Cardinality(results) + Cardinality(errors)
             /\ progress'.total = progress'.current + Len(queue)
             /\ progress'.current >= 1
             /\ progress'.current <= progress'.total]_vars

(***************************************************************************)
(* Claims about PerformanceOptimizer, under SpecRetry                      *)
(***************************************************************************)
\* C14: a retry_with_backoff that ended by raising a network exception made
\* max_retries + 1 calls of func and max_retries sleeps and raised the
\* exception of the last attempt; one that returned made no call and no sleep
\* after the attempt that succeeded; a sleep is never made after the final
\* attempt.
C14_RetryCounts ==
    /\ (rpc = "idle" /\ outcome.kind = "raised"
        /\ outcome.exc.type \in NetworkExceptions)
       => /\ invocations = max_retries + 1
          /\ sleeps = max_retries
          /\ outcome.exc = last_exception
          /\ outcome.exc.attempt = max_retries
    /\ outcome.kind = "returned"
       => /\ rpc = "idle"
          /\ invocations = outcome.attempt + 1
          /\ sleeps = outcome.attempt
    /\ rpc = "sleep" => attempt < max_retries

\* C14, its case: with max_retries = 2 every attempt raised and the call
\* ended with the third attempt's exception
C14_Witness ==
    /\ rpc = "idle"
    /\ max_retries = 2
    /\ outcome = Raised(ExceptionOf("Timeout", 2))
    /\ invocations = 3
    /\ sleeps = 2

\* C15: an exception that is no network exception, raised at attempt k, ends
\* retry_with_backoff at once: it is the exception raised to the caller, no
\* sleep is made and no attempt k + 1.
C15_NoRetryOfOtherExceptions ==
    [][FuncOtherError
       => /\ rpc' = "idle"
          /\ outcome'.kind = "raised"
          /\ outcome'.exc.type \in OtherExceptions
          /\ outcome'.exc.attempt = attempt
          /\ invocations' = attempt + 1
          /\ sleeps' = sleeps
          /\ attempt' = attempt]_vars

\* C15, its case: the second attempt raised another exception after the
\* first one was retried
C15_Witness ==
    /\ rpc = "idle"
    /\ outcome = Raised(ExceptionOf("ValueError", 1))
    /\ invocations = 2
    /\ sleeps = 1

\* C16: for the arguments of every call of exponential_backoff, the delay
\* without jitter is at most max_delay and at most the delay of the next
\* attempt, and the value returned is between 1.1 and 1.3 times that delay.
C16_BackoffMonotone ==
    LET delay == backoff_delay(backoff.attempt, backoff.base_delay,
                               backoff.max_delay)
        next == backoff_delay(backoff.attempt + 1, backoff.base_delay,
                              backoff.max_delay)
    IN /\ delay <= backoff.max_delay
       /\ delay <= next
       /\ 110 * delay <= 100 * backoff.value
       /\ 100 * backoff.value <= 130 * delay

\* C16, its case: the default delay of attempt 6 is capped at max_delay and
\* returned with the largest jitter
C16_Witness ==
    /\ backoff.attempt = 6
    /\ backoff.base_delay = default_base_delay
    /\ backoff.max_delay = default_max_delay
    /\ backoff.value = default_max_delay + 18000

(***************************************************************************)
(* Claims about rate_limit_decorator, under SpecRate                       *)
(***************************************************************************)
\* C17: an invocation of the underlying function begins at least
\* min_interval after the invocation before it began, whichever threads made
\* the two.
C17_RateLimitGap ==
    [][\A t \in Threads :
          RateStamp(t) => now - last_called >= min_interval]_vars

(***************************************************************************)
(* Claims about the error handling of CacheManager, under SpecCache        *)
(***************************************************************************)
\* C18: whatever the state of the cache and whatever goes wrong under it, a
\* get hands its caller a stored entry or None, never an exception.
C18_GetNeverRaises ==
    ret.op = "get" =>
        /\ ret.val = NoneValue \/ "data" \in DOMAIN ret.val
        /\ ret.args.caught # "" => ret.val = NoneValue

\* C18, its case: a get of a fresh file that cannot be deserialized was a
\* miss
C18_Witness ==
    /\ ret.op = "get"
    /\ ret.args.caught = "EOFError"
    /\ ret.val = NoneValue

\* C19: set returns True or False and nothing else; False when the payload
\* cannot be serialized or the file cannot be written; True only when the
\* entry is in the file afterwards, whole and written at the time it bears.
C19_SetReportsFailure ==
    ret.op = "set" =>
        LET f == CacheFile(ret.args.platform, ret.args.endpoint,
                           ret.args.params)
        IN /\ ret.val \in BOOLEAN
           /\ (~ Serializable(ret.args.data)
                  \/ ret.args.platform \notin PlatformDirs)
              => ret.val = FALSE
           /\ ret.val = TRUE
              => /\ f \in DOMAIN files
                 /\ files[f].content # Truncated
                 /\ files[f].content.data = ret.args.data
                 /\ files[f].mtime = files[f].content.timestamp

\* C19, its case: a set of a payload that cannot be serialized returned
\* False
C19_Witness ==
    /\ ret.op = "set"
    /\ ret.val = FALSE
    /\ \E f \in DOMAIN files :
          files[f].content = Truncated /\ files[f].mtime = now

\* C20: a set that returns False on a key whose entry get would return
\* leaves that entry as it was: a get that follows still returns it.
C20_FailedSetKeepsEntry ==
    [][\A p \in Platforms, e \in Endpoints, q \in ParamsSet, v \in Values,
          ct \in SetCacheTypes, t \in TtlOverrides :
          (/\ GetResult(files, now, p, e, q, "default") # NoneValue
           /\ Set(p, e, q, v, ct, t)
           /\ ret'.val = FALSE)
          => GetResult(files', now', p, e, q, "default")
                = GetResult(files, now, p, e, q, "default")]_vars

\* C21: the TTL that governs an entry is the override passed to set, else
\* the platform's <cache_type>_ttl, else the platform's default_ttl, else the
\* global default; set stores that TTL with the entry, and a get of the entry
\* with the cache type it was written with is a hit exactly while no more
\* than that TTL has passed since the write.
C21_TtlResolution ==
    [][\A p \in Platforms, e \in Endpoints, q \in ParamsSet :
          LET f == CacheFile(p, e, q)
          IN /\ \A v \in Values, ct \in SetCacheTypes, t \in TtlOverrides :
                   (Set(p, e, q, v, ct, t) /\ ret'.val = TRUE)
                   => files'[f].content.ttl
                         = IF t # NoTtl THEN t
                           ELSE IF p \notin DOMAIN PLATFORM_CONFIGS
                           THEN default_cache_duration
                           ELSE IF (ct \o "_ttl") \in DOMAIN PLATFORM_CONFIGS[p]
                           THEN PLATFORM_CONFIGS[p][ct \o "_ttl"]
                           ELSE PLATFORM_CONFIGS[p].default_ttl
             /\ \A ct \in CacheTypes :
                   (/\ f \in DOMAIN files
                    /\ files[f].content # Truncated
                    /\ files[f].content.cache_type = ct
                    /\ Get(p, e, q, ct))
                   => (ret'.val # NoneValue
                         <=> now - files[f].content.timestamp
                                <= files[f].content.ttl)]_vars

\* C23: clear with expired_only = True, whether given a platform and an
\* endpoint, a platform, or nothing, removes no entry of its selection that
\* a get at the same instant returns, and removes every entry of its
\* selection that such a get treats as expired.
C23_ClearExpiredOnly ==
    [][\A p \in Platforms \cup {None}, e \in Endpoints \cup {None} :
          Clear(p, e, TRUE)
          => \A P \in Platforms, E \in Endpoints, q \in ParamsSet :
                LET f == CacheFile(P, E, q)
                    selected == /\ Truthy(p) => P = p
                                /\ (Truthy(p) /\ Truthy(e)) => E = e
                IN (f \in DOMAIN files /\ files[f].content # Truncated)
                   => LET valid == GetResult(files, now, P, E, q,
                                             files[f].content.cache_type)
                                      # NoneValue
                      IN /\ valid => (f \in DOMAIN files'
                                        /\ files'[f] = files[f])
                         /\ (selected /\ ~ valid) => f \notin DOMAIN files']_vars

\* C24: clear(platform=P, endpoint=E) makes get(P, E, params) a miss for
\* every params, and leaves every file of another platform or of another
\* endpoint of P as it was.
C24_ClearEndpoint ==
    [][\A P \in Platforms, E \in Endpoints :
          Clear(P, E, FALSE)
          => /\ \A q \in ParamsSet, ct \in CacheTypes :
                   GetResult(files', now', P, E, q, ct) = NoneValue
             /\ \A f \in DOMAIN files :
                   (/\ files[f].content # Truncated
                    /\ \/ files[f].content.platform # P
                       \/ files[f].content.endpoint # E)
                   => (f \in DOMAIN files' /\ files'[f] = files[f])]_vars

\* C25: clear() with no argument leaves no file, so that every get is a miss,
\* and returns the number of entries there were: the files that held an
\* entry, not what a set that failed left behind.
C25_ClearAll ==
    [][(ret'.op = "clear" /\ Clear(None, None, FALSE))
       => /\ files' = << >>
          /\ \A P \in Platforms, E \in Endpoints, q \in ParamsSet,
                ct \in CacheTypes :
                GetResult(files', now', P, E, q, ct) = NoneValue
          /\ ret'.val = Cardinality({f \in DOMAIN files :
                                        files[f].content # Truncated})]_vars

\* C27: a set of a serializable value on a platform that PLATFORM_CONFIGS
\* does not know returns True and stores the entry with the global default
\* duration as its TTL, and a get at once returns it.
C27_UnconfiguredPlatform ==
    [][\A p \in Platforms \ DOMAIN PLATFORM_CONFIGS, e \in Endpoints,
          q \in ParamsSet, v \in Values, ct \in SetCacheTypes :
          (Serializable(v) /\ Set(p, e, q, v, ct, NoTtl))
          => LET f == CacheFile(p, e, q)
             IN /\ ret'.val = TRUE
                /\ f \in DOMAIN files'
                /\ files'[f].content.ttl = default_cache_duration
                /\ GetResult(files', now', p, e, q, ct) # NoneValue]_vars

(***************************************************************************)
(* Claims about the statistics of the cache, under SpecStats               *)
(***************************************************************************)
\* C26: the dict get_stats() returns has total_entries, the number of entries
\* stored, cache_hits and cache_misses, the numbers of gets so far that
\* returned a value and that returned None, and hit_rate, the hits over the
\* gets.
C26_StatsCounters ==
    (ret.op = "get_stats" /\ ret.args.platform = None) =>
        /\ {"total_entries", "cache_hits", "cache_misses", "hit_rate"}
              \subseteq DOMAIN ret.val
        /\ ret.val.total_entries
              = Cardinality({f \in DOMAIN files : files[f].content # Truncated})
        /\ ret.val.cache_hits = gets.hits
        /\ ret.val.cache_misses = gets.misses
        /\ ret.val.hit_rate
              = [hits |-> gets.hits, gets |-> gets.hits + gets.misses]

(***************************************************************************)
(* Claims about the cache key, under SpecKey                               *)
(***************************************************************************)
\* C22: two requests address the same cache file exactly when they have the
\* same platform, the same endpoint and the same parameter items, whatever
\* the order the items were given in (no parameters given as None or as the
\* empty dict alike); so a get finds the entry a set wrote with the same
\* items in another order, and no entry of a request that differs in
\* platform, endpoint or a parameter value.
C22_KeyDeterminism ==
    lookup.done =>
        LET Items(d) == IF d = NoParams THEN {}
                        ELSE {d[i] : i \in 1..Len(d)}
            same == /\ lookup.a.platform = lookup.b.platform
                    /\ lookup.a.endpoint = lookup.b.endpoint
                    /\ Items(lookup.a.params) = Items(lookup.b.params)
        IN /\ (lookup.path_a = lookup.path_b) <=> same
           /\ lookup.hit <=> same

\* C22, its case: the same two items given in the two orders address one
\* file, and the get hits
C22_Witness ==
    /\ lookup.done
    /\ lookup.a.params = << <<"user", "a">>, <<"count", "b">> >>
    /\ lookup.b.params = << <<"count", "b">>, <<"user", "a">> >>
    /\ lookup.path_a = lookup.path_b
    /\ lookup.hit

(***************************************************************************)
(* Claims about the threads of a batch run, under SpecBatchRun             *)
(***************************************************************************)
\* C39: once stop has returned no worker thread is alive: whenever
\* is_running() is false and no stop is under way, no worker thread is
\* executing, so a later start runs only its own max_concurrent workers.
C39_StoppedMeansNoWorker ==
    (~is_running /\ userpc = "idle"
        /\ \A m \in BagToSet(monitors) : m.pc # "stop_join")
    => threads = EmptyBag

\* C34: a worker sleeps the delay between requests before it marks the item
\* done: the step that marks an item done does not put the worker into the
\* sleep, and when the completion callback of a run that waited for the
\* queue fires, no worker is still in the sleep that follows an item.
C34_DelayBeforeDone ==
    [][/\ \A w \in WorkerThreads :
              WorkerTaskDone(w) => Sleeping' <= Sleeping
       /\ \A m \in MonitorThreads :
              (MonitorCallback(m) /\ m.waited /\ calls.starts = 1)
              => Sleeping = 0]_vars

\* C32: every enqueued item is dequeued by one worker only: the items still
\* in the queue and the items held by workers, one per worker between its
\* dequeue and its task_done, never outnumber the items enqueued and not yet
\* marked done, so no item is held, and no lookup made, by two workers.
C32_SingleConsumer ==
    /\ Len(queue) + Holding <= unfinished
    /\ unfinished <= calls.adds

\* C32, its case: three items enqueued, two workers each in the lookup of one
\* of them, the third still in the queue
C32_Witness ==
    /\ calls.adds = 3
    /\ unfinished = 3
    /\ Len(queue) = 1
    /\ InFlight = 2

\* C31: a worker reads the stop flag only at the top of its loop: whenever a
\* lookup of a dequeued username ends, with the stop flag set or not, the
\* username is in results or in errors and the worker thread goes on to its
\* next step; no dequeued username is dropped.
C31_DequeuedIsRecorded ==
    [][\A u \in Usernames :
          Looking(threads', u) < Looking(threads, u)
          => /\ u \in results' \cup errors'
             /\ BagCardinality(threads') = BagCardinality(threads)]_vars

\* C31, its case: stop was signalled and returned while a worker was inside
\* a lookup (the worker is no longer listed, and the flag has not been
\* cleared since), and the worker has recorded the outcome and is about to
\* report progress
C31_Witness ==
    /\ calls.starts = 1
    /\ stop_event
    /\ workers = 0
    /\ \E w \in BagToSet(threads) : ~w.listed /\ w.pc = "progress"
    /\ results \cup errors # {}

\* C37: a dequeued item is marked done whatever its callbacks do: every step
\* by which a worker lets go of the item it holds marks that item done, also
\* the step in which the progress callback raises.
C37_HeldItemMarkedDone ==
    [][Holding' < Holding => unfinished' = unfinished - 1]_vars

(***************************************************************************)
(* Claims about a batch run that is left to finish, under SpecBatchLive    *)
(***************************************************************************)
\* C36: when usernames were enqueued and start was called, and no stop is
\* called by the user, every enqueued username is eventually in results or
\* errors, the completion callback is eventually made, and all the worker
\* threads eventually end.
C36_BatchCompletes ==
    /\ \A u \in Usernames :
          (calls.starts = 1 /\ \E i \in 1..Len(queue) : queue[i] = u)
          ~> (u \in results \cup errors)
    /\ (calls.starts = 1 /\ calls.adds >= 1)
       ~> (unfinished = 0 /\ callbacks >= 1 /\ threads = EmptyBag)

(***************************************************************************)
(* Claims about the HALF_OPEN state, under SpecBreaker                     *)
(***************************************************************************)
\* C38: HALF_OPEN lasts only while the trial call runs: whenever no call
\* through the breaker is under way, whatever way the last one ended, the
\* state is CLOSED or OPEN.
C38_HalfOpenTransient ==
    pc[MainThread] = "idle" => state \in {"CLOSED", "OPEN"}

(***************************************************************************)
(* Claims about the lock of BatchProcessor, under SpecBatchLock            *)
(***************************************************************************)
\* C33: the lock is held exactly while one worker is inside a with
\* self.lock block, around the store into results or errors or the read of
\* their sizes: never while every worker is in the dequeue, in the lookup,
\* in the delay sleep or in the progress callback; and every step of a
\* worker that changes results or errors is taken with the lock held and
\* releases it.
C33_LockDiscipline ==
    /\ [](lock <=> InsideLock = 1)
    /\ [](InsideLock <= 1)
    /\ []((Blocked = BagCardinality(threads)) => ~ lock)
    /\ [][(results' # results \/ errors' # errors)
          => (lock /\ ~ lock' /\ InsideLock' = InsideLock - 1)]_vars

\* C33, its case: one worker is inside the lock storing a result while the
\* other is in a lookup, not holding it
C33_Witness ==
    /\ lock
    /\ \E w \in BagToSet(threads) : w.pc = "store_result"
    /\ \E w \in BagToSet(threads) : w.pc = "invoke"

C40_RetryTerminates ==
    (request.pc = "check_cache") ~> (request.pc \in {"returned", "raised"})

====
